---- MODULE Spec2Model ----
(***************************************************************************)
(* KokoTales / MemoryTales.ai: the story generation pipeline, the          *)
(* generative content client, the video content client and the local      *)
(* persistence layer, modelled as state machines.                          *)
(*                                                                         *)
(* Conventions.  An absent (undefined) string field is "", an absent data  *)
(* URI is <<>>.  A data URI `data:<mime>;base64,<data>` is the pair        *)
(* <<mime, data>>.  A thrown Error is a record carrying the parts of its   *)
(* message.                                                                *)
(***************************************************************************)
EXTENDS Integers, Sequences, FiniteSets, TLC

(***************************************************************************)
(* Generative content client (src/lib/ai-services/gemini-service.ts)       *)
(***************************************************************************)
VARIABLES
    cPc,          \* position of the client call: idle / attempt / conservative / done
    cOp,          \* operation under way: none / design / cover / panel
    cIn,          \* its arguments: the characters and the panel's character names
    cAttempt,     \* loop variable `attempt` of the retry loop
    cParts,       \* imageParts built for the call
    cLog,         \* provider round trips of the call, oldest first
    cResult,      \* what the call returned or threw
    envFallback,  \* NEXT_PUBLIC_GEMINI_API_KEY_FALLBACK ("" when unset)
    legacyLog,    \* provider round trips made through the env-key client (part_004)
    legacyResult  \* outcome of the env-key client's call

clientVars == <<cPc, cOp, cIn, cAttempt, cParts, cLog, cResult, envFallback,
                legacyLog, legacyResult>>

(***************************************************************************)
(* Video content client (src/unnamed/part_005) and the stand-alone         *)
(* cover-video entry point of the orchestrator (src/unnamed/part_006)      *)
(***************************************************************************)
VARIABLES
    vPc,          \* idle / waiting (fal.subscribe pending) / done
    vEntry,       \* entry point used: none / client / orchestrator
    vStory,       \* the story argument: its coverImage
    vFalKey,      \* process.env.FAL_KEY ("" when unset)
    vCalls,       \* number of fal.subscribe calls issued
    vProgress,    \* progress values reported by StoryGenerator.generateCoverVideo
    vResult       \* what the call returned or threw

videoVars == <<vPc, vEntry, vStory, vFalKey, vCalls, vProgress, vResult>>

(***************************************************************************)
(* Story generation orchestrator: one run of                               *)
(* StoryGenerator.generateCompleteStory (src/unnamed/part_006)             *)
(***************************************************************************)
VARIABLES
    pc,            \* the await the run is suspended at, or returned / raised
    argCharacters, \* the `characters` argument
    providerStory, \* the structure the provider answers generateStory with
    ls,            \* localStorage
    clock,         \* the value of the next `new Date()`
    working,       \* charactersWithDescriptions
    storyData,     \* the result of generateStory
    designs,       \* charactersWithDesigns
    art,           \* pagesWithArt followed by the page being illustrated
    pageIdx,       \* index of the page being illustrated
    panelIdx,      \* index of the panel being illustrated within it
    coverImage,    \* the local coverImage
    finalStory,    \* the local finalStory, NoStory until it is compiled
    saved,         \* results of the storyStorage.saveStory calls of the run
    progress,      \* the percentages passed to onProgress, as fractions
    request,       \* the illustration request in flight or last made
    failed,        \* the awaited calls of the run that were rejected so far
    calls,         \* the calls the run made to the caches and the clients: start and end
    outcome        \* the value returned or the error raised

pipeVars == <<pc, argCharacters, providerStory, ls, clock, working, storyData, designs,
              art, pageIdx, panelIdx, coverImage, finalStory, saved, progress, request,
              failed, calls, outcome>>

(***************************************************************************)
(* One call of GeminiService.generateCharacterDescriptions                 *)
(* (src/lib/ai-services/gemini-service.ts)                                 *)
(***************************************************************************)
VARIABLES
    dCharacters,  \* the `characters` argument
    dResponse,    \* what the provider answered
    dResult       \* what the call returned or threw

descVars == <<dCharacters, dResponse, dResult>>

(***************************************************************************)
(* The story cache (src/lib/storage/story-storage.ts) and the character    *)
(* cache (src/components/storybook/cover-video-generator.tsx) driven one   *)
(* public method at a time                                                 *)
(***************************************************************************)
VARIABLES
    sLs,          \* localStorage
    sNow,         \* the value of the next `new Date()`
    sCalls,       \* number of methods called so far
    sCall,        \* the last method called, with its arguments and the storage before it
    sReturn       \* what it returned, and what it did to the storage

storeVars == <<sLs, sNow, sCalls, sCall, sReturn>>

(***************************************************************************)
(* The status-poll loop of useVideoGeneration                              *)
(* (src/hooks/use-video-generation.ts)                                     *)
(***************************************************************************)
VARIABLES
    pPc,          \* idle / status (status fetch pending) / result (result fetch pending) /
                  \* timer (setTimeout pending) / ended
    pAttempts,    \* the local `attempts`
    pQueries,     \* number of status queries issued
    pVideoState   \* the hook's videoState

pollVars == <<pPc, pAttempts, pQueries, pVideoState>>

(***************************************************************************)
(* One call of VideoGenerator.createAnimationPrompt (src/unnamed/part_005) *)
(***************************************************************************)
VARIABLES
    aStory,       \* the story argument: theme, style, character names, narrations
    aPrompt       \* the prompt returned, by its parts

promptVars == <<aStory, aPrompt>>

(***************************************************************************)
(* The useVideoGeneration hook with its callers                            *)
(* (src/hooks/use-video-generation.ts)                                     *)
(***************************************************************************)
VARIABLES
    hState,       \* videoState
    hLoops,       \* one record per generateVideo call that passed the cover check:
                  \* where its asynchronous chain stands and its local `attempts`
    hReset,       \* resetVideo was called and generateVideo has not been called since
    hToast        \* the last toast shown

hookVars == <<hState, hLoops, hReset, hToast>>

(***************************************************************************)
(* CharacterDesignViewer after the initial designs (src/unnamed/part_000)  *)
(***************************************************************************)
VARIABLES
    designCharacters,        \* by position: the design image and the approval flag
    currentCharacterIndex,
    generatingCharacterId,   \* 0 for null
    dFlights,                \* regenerateCharacterDesign calls awaiting the service, each
                             \* with the designCharacters its closure holds
    dLast                    \* the last handler or completion that ran, with the
                             \* designCharacters before it

designVars == <<designCharacters, currentCharacterIndex, generatingCharacterId, dFlights,
                dLast>>

(***************************************************************************)
(* HomePage (src/app/api/generate-video/result/route.ts, from line 81)     *)
(***************************************************************************)
VARIABLES
    step,                 \* GenerationState
    config,               \* the prompt and the characterCount of StoryConfig
    selectedCharacters,
    generatedStory,       \* "" for null, otherwise the id of the story
    storedStories,        \* the ids listed in the history menu
    showHistory

homeVars == <<step, config, selectedCharacters, generatedStory, storedStories, showHistory>>

pageVars == <<hookVars, designVars, homeVars>>

uiVars == <<promptVars, pageVars>>

libVars == <<descVars, storeVars, pollVars, uiVars>>

vars == <<clientVars, videoVars, pipeVars, libVars>>

----------------------------------------------------------------------------
(* Data URIs *)

NoImage == <<>>

\* `data:${mimeType};base64,${data}`
DataUri(mimeType, data) == <<mimeType, data>>

\* generatedDesignImage.split(',')[1]
SplitComma1(uri) == uri[2]

\* generatedDesignImage.match(/data:([^;]+)/)?.[1] || 'image/png'
MimeMatch(uri) == IF uri[1] # "" THEN uri[1] ELSE "image/png"

----------------------------------------------------------------------------
(* Provider responses.  A response is either a thrown error [err |-> msg]  *)
(* or a GenerateContentResponse reduced to the fields the code reads:      *)
(* whether candidates[0] exists, its finishReason, and its content.parts   *)
(* ("none": no parts, "text": parts without inline data, "image": a part   *)
(* with inline image data).                                                *)

ProviderErrors == {"429", "500"}

OkResponses ==
    [err : {""}, cand : {FALSE}, finish : {"STOP"}, parts : {"none"}, data : {""}]
    \cup [err : {""}, cand : {TRUE}, finish : {"STOP", "PROHIBITED_CONTENT"},
          parts : {"none", "text"}, data : {""}]
    \cup [err : {""}, cand : {TRUE}, finish : {"STOP"}, parts : {"image"}, data : {"IMG"}]

ErrResponses ==
    [err : ProviderErrors, cand : {FALSE}, finish : {"STOP"}, parts : {"none"}, data : {""}]

Responses == OkResponses \cup ErrResponses

IsError(r) == r.err # ""

\* response.candidates?.[0]?.content?.parts
HasParts(r) == r.cand /\ r.parts # "none"

\* the scan for the first part with inlineData.data
HasImage(r) == HasParts(r) /\ r.parts = "image"

\* an empty payload: a response that arrived and carries no image and no moderation flag
EmptyPayload(r) == ~IsError(r) /\ ~HasImage(r) /\ r.finish # "PROHIBITED_CONTENT"

\* error.message?.includes('403') || includes('429') || includes('503') || includes('quota')
Retryable(msg) == msg \in {"403", "429", "503", "quota"}

----------------------------------------------------------------------------
(* callGeminiWithFallback *)

RoundTrip(cred, req, resp) == [cred |-> cred, req |-> req, resp |-> resp]

\* gemini-service.ts: one client from the caller's key, one call, no failover.
callGeminiWithFallback(req, r1) ==
    [log |-> <<RoundTrip("primary", req, r1)>>, out |-> r1]

\* part_004: the env-key client; primary first, fallback on 403/429/503/quota.
legacyCallGeminiWithFallback(req, r1, r2, fallback) ==
    IF ~IsError(r1)
    THEN [log |-> <<RoundTrip("primary", req, r1)>>, out |-> r1]
    ELSE IF fallback # "" /\ Retryable(r1.err)
         THEN [log |-> <<RoundTrip("primary", req, r1), RoundTrip("fallback", req, r2)>>,
               out |-> r2]
         ELSE [log |-> <<RoundTrip("primary", req, r1)>>, out |-> r1]

----------------------------------------------------------------------------
(* Conditioning images *)

ImagePart(data, mimeType) == [data |-> data, mimeType |-> mimeType]

\* A plausible slip: the uploaded photo is preferred over the approved design.
ReferencePart_UploadFirst(char) ==
    IF char.base64Image # "" /\ char.mimeType # ""
    THEN <<ImagePart(char.base64Image, char.mimeType)>>
    ELSE IF char.generatedDesignImage # NoImage
         THEN <<ImagePart(SplitComma1(char.generatedDesignImage),
                          MimeMatch(char.generatedDesignImage))>>
         ELSE <<>>

\* the body of the forEach in generatePanelIllustration / generateCoverImage
ReferencePart(char) ==
    IF char.generatedDesignImage # NoImage
    THEN <<ImagePart(SplitComma1(char.generatedDesignImage),
                     MimeMatch(char.generatedDesignImage))>>
    ELSE IF char.base64Image # "" /\ char.mimeType # ""
         THEN <<ImagePart(char.base64Image, char.mimeType)>>
         ELSE <<>>

RECURSIVE ReferenceParts(_)
ReferenceParts(chars) ==
    IF chars = <<>> THEN <<>>
    ELSE ReferencePart(Head(chars)) \o ReferenceParts(Tail(chars))

\* characters.filter(char => panel.characters.includes(char.name))
InPanel(chars, panelChars) == SelectSeq(chars, LAMBDA c : c.name \in panelChars)

PanelImageParts(chars, panelChars) == ReferenceParts(InPanel(chars, panelChars))

CoverImageParts(chars) == ReferenceParts(chars)

\* generateCharacterDesign: the uploaded photo, when there is one
DesignImageParts(char) ==
    IF char.base64Image # "" /\ char.mimeType # ""
    THEN <<ImagePart(char.base64Image, char.mimeType)>>
    ELSE <<>>

----------------------------------------------------------------------------
(* Characters *)

\* the i-th identifier, name or image payload of a family: "c1", "N2", "D1", "U2", ...
Tag(prefix, i) == prefix \o ToString(i)

\* A name is the pair <<case-folded spelling, spelling as written>>.
CharName(i) == <<Tag("n", i), Tag("N", i)>>

\* name.toLowerCase()
toLowerCase(name) == <<name[1], name[1]>>

Character(id, name, description, design, upload, mime) ==
    [id |-> id, name |-> name, description |-> description, generatedDescription |-> "",
     generatedDesignImage |-> design, base64Image |-> upload, mimeType |-> mime]

\* the arguments tried for a single client call: one or two characters, each with or
\* without an approved design and with or without an uploaded photo
ClientChar(i) ==
    { Character(Tag("c", i), CharName(i), "described", d, u[1], u[2]) :
        d \in {NoImage, DataUri("image/png", Tag("D", i))},
        u \in {<<"", "">>, <<Tag("U", i), "image/jpeg">>, <<Tag("U", i), "">>} }

ClientCasts == { <<a>> : a \in ClientChar(1) }
                 \cup { <<a, b>> : a \in {c \in ClientChar(1) : c.mimeType # ""},
                                   b \in {c \in ClientChar(2) : c.generatedDesignImage = NoImage} }

----------------------------------------------------------------------------
(* The image-producing calls: generateCharacterDesign, generateCoverImage, *)
(* generatePanelIllustration.  One action per provider round trip.         *)

MaxAttempts == 2

NoResult == [status |-> "pending", image |-> NoImage, kind |-> "", attempt |-> 0, cause |-> ""]

\* return `data:${mimeType};base64,${data}`
Returned(r) == [status |-> "ok", image |-> DataUri("image/png", r.data),
                kind |-> "", attempt |-> 0, cause |-> ""]

\* callWithFallback rethrows lastError as Error(`AI service failed: ${error.message}`)
Raised(kind, attempt, cause) ==
    [status |-> "raised", image |-> NoImage, kind |-> kind, attempt |-> attempt, cause |-> cause]

ClientInvoke ==
    /\ cPc = "idle"
    /\ vPc = "idle"
    /\ legacyResult = "pending"
    /\ \E op \in {"design", "cover", "panel"}, chars \in ClientCasts :
         \E names \in (IF op = "panel" THEN SUBSET {c.name : c \in {chars[i] : i \in 1..Len(chars)}}
                       ELSE {{}}) :
           /\ op = "design" => Len(chars) = 1
           /\ cOp' = op
           /\ cIn' = [chars |-> chars, panelChars |-> names]
           /\ cParts' = CASE op = "design" -> DesignImageParts(chars[1])
                          [] op = "cover"  -> CoverImageParts(chars)
                          [] op = "panel"  -> PanelImageParts(chars, names)
    /\ cPc' = "attempt"
    /\ cAttempt' = 1
    /\ UNCHANGED <<cLog, cResult, envFallback, legacyLog, legacyResult>>
    /\ UNCHANGED <<videoVars, pipeVars, libVars>>

\* A plausible slip: the first failed attempt is final.
AttemptFailed_NoRetry(kind, cause) ==
    /\ cAttempt' = cAttempt
    /\ cPc' = "done"
    /\ cResult' = Raised(kind, cAttempt, cause)

\* the end of one loop iteration that produced no image: back off and retry, or give up
AttemptFailed(kind, cause) ==
    IF cAttempt < MaxAttempts
    THEN /\ cAttempt' = cAttempt + 1
         /\ cPc' = "attempt"
         /\ cResult' = cResult
    ELSE /\ cAttempt' = cAttempt
         /\ cPc' = "done"
         /\ cResult' = Raised(kind, cAttempt, cause)

AttemptSucceeded(r) ==
    /\ cAttempt' = cAttempt
    /\ cPc' = "done"
    /\ cResult' = Returned(r)

\* generateCharacterDesign / generateCoverImage: one iteration of `for (attempt ...)`
ImageAttempt ==
    /\ cPc = "attempt"
    /\ cOp \in {"design", "cover"}
    /\ \E r \in Responses :
         LET call == callGeminiWithFallback("normal", r) IN
         /\ cLog' = cLog \o call.log
         /\ IF IsError(call.out) THEN AttemptFailed("failed", call.out.err)
            ELSE IF HasImage(call.out) THEN AttemptSucceeded(call.out)
            ELSE AttemptFailed("noimage", "")
    /\ UNCHANGED <<cOp, cIn, cParts, envFallback, legacyLog, legacyResult>>
    /\ UNCHANGED <<videoVars, pipeVars, libVars>>

\* generatePanelIllustration: one iteration up to the moderation branch
PanelAttempt ==
    /\ cPc = "attempt"
    /\ cOp = "panel"
    /\ \E r \in Responses :
         LET call == callGeminiWithFallback("normal", r) IN
         /\ cLog' = cLog \o call.log
         /\ IF IsError(call.out) THEN AttemptFailed("failed", call.out.err)
            ELSE IF ~call.out.cand THEN AttemptFailed("failed", "no candidates")
            ELSE IF call.out.finish = "PROHIBITED_CONTENT"
                 THEN /\ cPc' = "conservative"
                      /\ UNCHANGED <<cAttempt, cResult>>
            ELSE IF HasImage(call.out) THEN AttemptSucceeded(call.out)
            ELSE AttemptFailed("noimage", "")
    /\ UNCHANGED <<cOp, cIn, cParts, envFallback, legacyLog, legacyResult>>
    /\ UNCHANGED <<videoVars, pipeVars, libVars>>

\* generatePanelIllustration: the conservative-prompt request and the rest of the iteration
PanelConservativeRetry ==
    /\ cPc = "conservative"
    /\ \E r \in Responses :
         LET call == callGeminiWithFallback("conservative", r)
             flagged == cLog[Len(cLog)].resp
         IN
         /\ cLog' = cLog \o call.log
         /\ IF IsError(call.out) THEN AttemptFailed("failed", call.out.err)
            ELSE IF HasParts(call.out)
                 THEN IF HasImage(call.out) THEN AttemptSucceeded(call.out)
                      ELSE IF HasImage(flagged) THEN AttemptSucceeded(flagged)
                      ELSE AttemptFailed("noimage", "")
            ELSE AttemptFailed("failed", "repeatedly flagged")
    /\ UNCHANGED <<cOp, cIn, cParts, envFallback, legacyLog, legacyResult>>
    /\ UNCHANGED <<videoVars, pipeVars, libVars>>

\* a text call of the env-key service (part_004): one callGeminiWithFallback
LegacyProviderCall ==
    /\ legacyResult = "pending"
    /\ cPc = "idle"
    /\ vPc = "idle"
    /\ \E r1 \in Responses, r2 \in Responses :
         LET call == legacyCallGeminiWithFallback("normal", r1, r2, envFallback) IN
         /\ legacyLog' = call.log
         /\ legacyResult' = IF IsError(call.out) THEN "raised" ELSE "ok"
    /\ UNCHANGED <<cPc, cOp, cIn, cAttempt, cParts, cLog, cResult, envFallback>>
    /\ UNCHANGED <<videoVars, pipeVars, libVars>>

----------------------------------------------------------------------------
(* Video content client: VideoGenerator.generateCoverVideo, and the        *)
(* orchestrator's stand-alone StoryGenerator.generateCoverVideo.  An error *)
(* message is the sequence of its parts, outermost prefix first.           *)

MissingCoverImage == "Story must have a cover image to generate video"

MissingFalKey == "FAL_KEY environment variable is required for video generation"

\* Error(`Failed to generate cover video: ${error.message}`)
WrapVideoError(msg) == <<"Failed to generate cover video">> \o msg

VideoPending == [status |-> "pending", msg |-> <<>>, videoUrl |-> "", requestId |-> ""]

VideoRaised(msg) == [status |-> "raised", msg |-> msg, videoUrl |-> "", requestId |-> ""]

VideoReturned(url, requestId) ==
    [status |-> "ok", msg |-> <<>>, videoUrl |-> url, requestId |-> requestId]

\* A plausible slip: the cover image is not checked before the submission.
VideoPrecondition_KeyOnly(cover, falKey) ==
    IF falKey = "" THEN <<MissingFalKey>> ELSE <<>>

\* the two guards of VideoGenerator.generateCoverVideo that precede fal.subscribe
VideoPrecondition(cover, falKey) ==
    IF cover = NoImage THEN <<MissingCoverImage>>
    ELSE IF falKey = "" THEN <<MissingFalKey>>
    ELSE <<>>

\* the guard of StoryGenerator.generateCoverVideo, thrown inside its own try block
OrchestratorVideoPrecondition(cover) ==
    IF cover = NoImage THEN <<MissingCoverImage>> ELSE <<>>

VideoInvoke ==
    /\ vPc = "idle"
    /\ cPc = "idle"
    /\ legacyResult = "pending"
    /\ \E entry \in {"client", "orchestrator"},
          cover \in {NoImage, DataUri("image/png", "COVER")},
          key \in {"", "fal-key"} :
         LET own == IF entry = "orchestrator" THEN OrchestratorVideoPrecondition(cover) ELSE <<>>
             pre == VideoPrecondition(cover, key)
         IN
         /\ vEntry' = entry
         /\ vStory' = [coverImage |-> cover]
         /\ vFalKey' = key
         /\ IF own # <<>>
            THEN /\ vPc' = "done"
                 /\ vResult' = VideoRaised(WrapVideoError(own))
                 /\ UNCHANGED <<vCalls, vProgress>>
            ELSE /\ vProgress' = IF entry = "orchestrator" THEN <<10>> ELSE <<>>
                 /\ IF pre # <<>>
                    THEN /\ vPc' = "done"
                         /\ vResult' = VideoRaised(IF entry = "orchestrator"
                                                   THEN WrapVideoError(pre) ELSE pre)
                         /\ UNCHANGED vCalls
                    ELSE /\ vPc' = "waiting"
                         /\ vCalls' = vCalls + 1
                         /\ UNCHANGED vResult
    /\ UNCHANGED <<clientVars, pipeVars, libVars>>

\* fal.subscribe resolves with the finished video or rejects
VideoProviderReturn ==
    /\ vPc = "waiting"
    /\ \E ok \in BOOLEAN, cause \in {"provider failed", "network"} :
         IF ok
         THEN /\ vResult' = VideoReturned("video-url", "request-1")
              /\ vProgress' = IF vEntry = "orchestrator" THEN Append(vProgress, 100)
                              ELSE vProgress
         ELSE /\ vResult' = VideoRaised(IF vEntry = "orchestrator"
                                        THEN WrapVideoError(WrapVideoError(<<cause>>))
                                        ELSE WrapVideoError(<<cause>>))
              /\ UNCHANGED vProgress
    /\ vPc' = "done"
    /\ UNCHANGED <<vEntry, vStory, vFalKey, vCalls>>
    /\ UNCHANGED <<clientVars, pipeVars, libVars>>

----------------------------------------------------------------------------
(* The state before any client call *)

ClientIdle ==
    /\ cPc = "idle"
    /\ cOp = "none"
    /\ cIn = [chars |-> <<>>, panelChars |-> {}]
    /\ cAttempt = 0
    /\ cParts = <<>>
    /\ cLog = <<>>
    /\ cResult = NoResult
    /\ legacyLog = <<>>
    /\ legacyResult = "pending"

VideoIdle ==
    /\ vPc = "idle"
    /\ vEntry = "none"
    /\ vStory = [coverImage |-> NoImage]
    /\ vFalKey = ""
    /\ vCalls = 0
    /\ vProgress = <<>>
    /\ vResult = VideoPending


----------------------------------------------------------------------------
(* generateCharacterDescriptions: one text call whose answer is parsed.    *)
(* The provider's answer is [err, json, array, entries]: err is the        *)
(* rejection ("" when the call resolves), json tells whether the text      *)
(* parses, array whether the parsed value is an array, entries its         *)
(* elements.  An element is [typed, description, appearance]: typed tells  *)
(* whether its description is a string.                                    *)

DescriptionEntry(typed, description, appearance) ==
    [typed |-> typed, description |-> description, appearance |-> appearance]

TextResponse(err, json, array, entries) ==
    [err |-> err, json |-> json, array |-> array, entries |-> entries]

InvalidDescriptionFormat == "The AI returned an invalid character description format."

\* callWithFallback: `AI service failed: ${error.message}`
WrapServiceError(msg) == <<"AI service failed", msg>>

\* `A friendly character named ${char.name}`
DefaultDescription(char) == "A friendly character named " \o char.name[2]

DefaultAppearance == "A cartoon character with bright, friendly features"

\* the body of the try: the forEach that logs description.substring(0, 80) raises a
\* TypeError on a value that is no array and on an element whose description is no string
ParsesAsDescriptions(response) ==
    /\ response.json
    /\ response.array
    /\ \A k \in 1..Len(response.entries) : response.entries[k].typed

\* characters.map((char, index) => ({ ...char, description: generatedChars[index]?.description
\* || default, generatedDescription: generatedChars[index]?.appearance || default }))
DescribeAt(char, index, generatedChars) ==
    [char EXCEPT
        !.description = IF index <= Len(generatedChars)
                           /\ generatedChars[index].description # ""
                        THEN generatedChars[index].description
                        ELSE DefaultDescription(char),
        !.generatedDescription = IF index <= Len(generatedChars)
                                    /\ generatedChars[index].appearance # ""
                                 THEN generatedChars[index].appearance
                                 ELSE DefaultAppearance]

NoDescriptions == [status |-> "idle", characters |-> <<>>, msg |-> <<>>]

generateCharacterDescriptions(characters, response) ==
    IF response.err # ""
    THEN [status |-> "raised", characters |-> <<>>, msg |-> WrapServiceError(response.err)]
    ELSE IF ~ParsesAsDescriptions(response)
    THEN [status |-> "raised", characters |-> <<>>,
          msg |-> WrapServiceError(InvalidDescriptionFormat)]
    ELSE [status |-> "ok",
          characters |-> [k \in 1..Len(characters) |->
                             DescribeAt(characters[k], k, response.entries)],
          msg |-> <<>>]

\* the characters handed over: named only, as loadAndEnhanceCharacters filters them
NamedOnly(i) == Character(Tag("c", i), CharName(i), "", NoImage, "", "")

DescribeCasts == {<<NamedOnly(1)>>, <<NamedOnly(2)>>, <<NamedOnly(1), NamedOnly(2)>>}

\* a full element, one with empty strings, one without a description
DescriptionEntries(k) ==
    {DescriptionEntry(TRUE, Tag("description-", k), Tag("appearance-", k)),
     DescriptionEntry(TRUE, "", ""),
     DescriptionEntry(FALSE, "", Tag("appearance-", k))}

MaxEntries == 3

RECURSIVE EntryLists(_)
EntryLists(n) ==
    IF n = 0 THEN {<<>>}
    ELSE {Append(l, e) : l \in EntryLists(n - 1), e \in DescriptionEntries(n)}

TextResponses ==
    {TextResponse(e, TRUE, TRUE, <<>>) : e \in ProviderErrors}
      \cup {TextResponse("", FALSE, FALSE, <<>>), TextResponse("", TRUE, FALSE, <<>>)}
      \cup {TextResponse("", TRUE, TRUE, l) : l \in UNION {EntryLists(n) : n \in 0..MaxEntries}}

DescIdle ==
    /\ dCharacters = <<>>
    /\ dResponse = TextResponse("", FALSE, FALSE, <<>>)
    /\ dResult = NoDescriptions

\* the call settles: the provider has answered dResponse
DescribeCall ==
    /\ dCharacters # <<>>
    /\ dResult = NoDescriptions
    /\ dResult' = generateCharacterDescriptions(dCharacters, dResponse)
    /\ UNCHANGED <<dCharacters, dResponse>>
    /\ UNCHANGED <<clientVars, videoVars, pipeVars, storeVars, pollVars, uiVars>>

----------------------------------------------------------------------------
(* Local persistence layer.  localStorage is the record                    *)
(*   chars  : the array under 'memorytales_characters' (<<>> when absent), *)
(*   meta   : the array under 'memorytales_stories_meta',                  *)
(*   bodies : the set of [id, story] under 'memorytales_stories_<id>'.     *)
(* charsOk and metaOk tell whether the text under the key parses; a body   *)
(* carries the same flag as its field ok.                                  *)
(* A handler runs against st = [ls, q, rest, sweep, trace]: q is the quota *)
(* script, one flag per localStorage.setItem the handler makes, TRUE where *)
(* setItem throws QuotaExceededError; once the script is used up every     *)
(* setItem behaves as rest says (TRUE: it throws).  trace lists what the   *)
(* handler did to the storage.  sweep is what the last-resort              *)
(* clearAllStories achieves when the call stack is exhausted.              *)

MAX_CHARACTERS == 50

CLEANUP_CHARACTERS == 30

MAX_STORIES == 10

MAX_STORAGE_SIZE_MB == 50

EmptyStorage ==
    [chars |-> <<>>, charsOk |-> TRUE, meta |-> <<>>, metaOk |-> TRUE, bodies |-> {}]

Take(s, n) == SubSeq(s, 1, IF Len(s) < n THEN Len(s) ELSE n)

Throws(st) == IF st.q # <<>> THEN Head(st.q) ELSE st.rest

Consume(st) == [st EXCEPT !.q = IF st.q = <<>> THEN <<>> ELSE Tail(st.q)]

Log(st, event) == [st EXCEPT !.trace = Append(@, event)]

\* localStorage.setItem(key, ...) threw / returned
Refused(st, key) == Log(Consume(st), key \o ":quota")

Wrote(st, key) == Log(Consume(st), key \o ":ok")

\* a stored character whose name is a string
WellFormed(entry) == entry.name # <<>>

\* the comparators handed to Array.prototype.sort
\* usage count descending, then last used descending
RankedBefore(a, b) ==
    \/ a.usageCount > b.usageCount
    \/ a.usageCount = b.usageCount /\ a.lastUsed > b.lastUsed

RecentBefore(a, b) == a.lastUsed > b.lastUsed

NewerBefore(a, b) == a.createdAt > b.createdAt

Before(order, a, b) ==
    CASE order = "ranked" -> RankedBefore(a, b)
      [] order = "recent" -> RecentBefore(a, b)
      [] order = "newer"  -> NewerBefore(a, b)

\* findIndex / find: the least of the indices that satisfy the test, 0 when there is none
FirstIndex(matching) ==
    IF matching = {} THEN 0
    ELSE CHOOSE i \in matching : \A j \in matching : i <= j

\* Array.prototype.sort with a comparator is stable: an element comes after the elements
\* the comparator puts before it and after the equal ones that preceded it
Position(order, s, i) ==
    1 + Cardinality({j \in 1..Len(s) :
                        \/ Before(order, s[j], s[i])
                        \/ j < i /\ ~Before(order, s[i], s[j])})

SortBy(order, s) ==
    LET at == [i \in 1..Len(s) |-> Position(order, s, i)] IN
    [p \in 1..Len(s) |-> s[CHOOSE i \in 1..Len(s) : at[i] = p]]

(* Character cache (CharacterStorage) *)

StoredCharacter(char, lastUsed, usageCount) ==
    [id |-> char.id, name |-> char.name, description |-> char.description,
     generatedDescription |-> char.generatedDescription,
     generatedDesignImage |-> char.generatedDesignImage,
     base64Image |-> char.base64Image, mimeType |-> char.mimeType,
     lastUsed |-> lastUsed, usageCount |-> usageCount]

\* the Character fields of a stored record, as loadCharactersForStory copies them
LoadedCharacter(stored) ==
    [id |-> stored.id, name |-> stored.name, description |-> stored.description,
     generatedDescription |-> stored.generatedDescription,
     generatedDesignImage |-> stored.generatedDesignImage,
     base64Image |-> stored.base64Image, mimeType |-> stored.mimeType]

\* { id: `char-${random}`, name }
PlaceholderCharacter(k, name) == Character(Tag("char-new", k), name, "", NoImage, "", "")

\* JSON.parse in a try: text that does not parse reads as no character
getStoredCharacters(st) == IF st.ls.charsOk THEN st.ls.chars ELSE <<>>

\* cleanupOldCharacters with the setItem outside the try
cleanupOldCharacters_NoCatch(st) ==
    LET recent == Take(SortBy("recent", getStoredCharacters(st)), CLEANUP_CHARACTERS) IN
    IF Throws(st)
    THEN Log(Refused(st, "characters"), "throw")
    ELSE [Wrote(st, "characters") EXCEPT !.ls.chars = recent, !.ls.charsOk = TRUE]

\* the catch removes the key
cleanupOldCharacters(st) ==
    LET recent == Take(SortBy("recent", getStoredCharacters(st)), CLEANUP_CHARACTERS) IN
    IF Throws(st)
    THEN [Refused(st, "characters") EXCEPT !.ls.chars = <<>>, !.ls.charsOk = TRUE]
    ELSE [Wrote(st, "characters") EXCEPT !.ls.chars = recent, !.ls.charsOk = TRUE]

\* saveStoredCharacters without the slice(0, MAX_CHARACTERS)
saveStoredCharacters_NoCap(st, characters) ==
    LET sorted == SortBy("ranked", characters) IN
    IF Throws(st)
    THEN cleanupOldCharacters(Refused(st, "characters"))
    ELSE [Wrote(st, "characters") EXCEPT !.ls.chars = sorted, !.ls.charsOk = TRUE]

saveStoredCharacters(st, characters) ==
    LET sorted == Take(SortBy("ranked", characters), MAX_CHARACTERS) IN
    IF Throws(st)
    THEN cleanupOldCharacters(Refused(st, "characters"))
    ELSE [Wrote(st, "characters") EXCEPT !.ls.chars = sorted, !.ls.charsOk = TRUE]

SameName(a, b) == toLowerCase(a) = toLowerCase(b)

\* the least index of an entry without a name, 0 when every entry has one
FirstMalformed(stored) == FirstIndex({x \in 1..Len(stored) : ~WellFormed(stored[x])})

\* c.name.toLowerCase() raises a TypeError on an entry without a name: a find or findIndex
\* whose test starts with it throws when it reaches such an entry before its match i
FindThrows(stored, i) ==
    LET bad == FirstMalformed(stored) IN bad > 0 /\ (i = 0 \/ bad < i)

\* the forEach of loadCharactersForStory: [stored, loaded, threw] after names[k..]
RECURSIVE LoadLoop(_, _, _, _, _)
LoadLoop(stored, loaded, names, k, now) ==
    IF k > Len(names) THEN [stored |-> stored, loaded |-> loaded, threw |-> FALSE]
    ELSE LET i == FirstIndex({x \in 1..Len(stored) :
                                WellFormed(stored[x]) /\ SameName(stored[x].name, names[k])})
         IN
         IF FindThrows(stored, i)
         THEN [stored |-> stored, loaded |-> loaded, threw |-> TRUE]
         ELSE IF i > 0
         THEN LoadLoop([stored EXCEPT ![i].lastUsed = now,
                                      ![i].usageCount = stored[i].usageCount + 1],
                       Append(loaded, LoadedCharacter(stored[i])), names, k + 1, now)
         ELSE LoadLoop(stored, Append(loaded, PlaceholderCharacter(k, names[k])),
                       names, k + 1, now)

\* loadCharactersForStory: [st, loaded]; a TypeError in the forEach leaves the method
loadCharactersForStory(st, characterNames, now) ==
    LET r == LoadLoop(getStoredCharacters(st), <<>>, characterNames, 1, now) IN
    IF r.threw THEN [st |-> Log(st, "throw"), loaded |-> <<>>]
    ELSE [st |-> saveStoredCharacters(st, r.stored), loaded |-> r.loaded]

\* { ...existing, ...newChar, lastUsed: now, usageCount: existing.usageCount + 1 }:
\* a field the new character carries replaces the stored one, an absent one keeps it
UpdatedCharacter(existing, newChar, now) ==
    [id |-> newChar.id, name |-> newChar.name,
     description |-> IF newChar.description # "" THEN newChar.description
                     ELSE existing.description,
     generatedDescription |-> IF newChar.generatedDescription # ""
                              THEN newChar.generatedDescription
                              ELSE existing.generatedDescription,
     generatedDesignImage |-> IF newChar.generatedDesignImage # NoImage
                              THEN newChar.generatedDesignImage
                              ELSE existing.generatedDesignImage,
     base64Image |-> IF newChar.base64Image # "" THEN newChar.base64Image
                     ELSE existing.base64Image,
     mimeType |-> IF newChar.mimeType # "" THEN newChar.mimeType ELSE existing.mimeType,
     lastUsed |-> now, usageCount |-> existing.usageCount + 1]

\* the forEach of saveCharacters: [updated, threw]
RECURSIVE SaveLoop(_, _, _, _)
SaveLoop(updated, characters, k, now) ==
    IF k > Len(characters) THEN [updated |-> updated, threw |-> FALSE]
    ELSE LET newChar == characters[k]
             i == FirstIndex({x \in 1..Len(updated) :
                                /\ WellFormed(updated[x])
                                /\ \/ SameName(updated[x].name, newChar.name)
                                   \/ updated[x].id = newChar.id})
         IN
         IF newChar.generatedDesignImage = NoImage /\ newChar.base64Image = ""
         THEN SaveLoop(updated, characters, k + 1, now)
         ELSE IF FindThrows(updated, i)
         THEN [updated |-> updated, threw |-> TRUE]
         ELSE IF i > 0
         THEN SaveLoop([updated EXCEPT ![i] = UpdatedCharacter(updated[i], newChar, now)],
                       characters, k + 1, now)
         ELSE SaveLoop(Append(updated, StoredCharacter(newChar, now, 1)),
                       characters, k + 1, now)

\* saveCharacters: a TypeError in the forEach leaves the method
saveCharacters(st, characters, now) ==
    LET r == SaveLoop(getStoredCharacters(st), characters, 1, now) IN
    IF r.threw THEN Log(st, "throw") ELSE saveStoredCharacters(st, r.updated)

(* Story cache (StoryStorage) *)

\* JSON.stringify turns the Date into its ISO string; its value is the millisecond count
Serialize(story) == [story EXCEPT !.createdAt = <<"iso", story.createdAt>>]

\* JSON.parse, then story.createdAt = new Date(story.createdAt)
Deserialize(body) == [body EXCEPT !.createdAt = body.createdAt[2]]

RECURSIVE Flatten(_)
Flatten(pages) ==
    IF pages = <<>> THEN <<>> ELSE Head(pages).panels \o Flatten(Tail(pages))

\* the first panel image in reading order, absent when there is none
generateThumbnail(story) ==
    LET panels == Flatten(story.pages)
        i == FirstIndex({x \in 1..Len(panels) : panels[x].imageUrl # NoImage})
    IN IF i > 0 THEN panels[i].imageUrl ELSE NoImage

\* new Blob([JSON.stringify(story)]).size, in megabytes: images dominate
StorySize(story) ==
    1 + Cardinality({i \in 1..Len(Flatten(story.pages)) :
                        Flatten(story.pages)[i].imageUrl # NoImage})
      + (IF story.coverImage # NoImage THEN 1 ELSE 0)

StoryMeta(story) ==
    [id |-> story.id, title |-> story.title, createdAt |-> story.createdAt,
     characterCount |-> Len(story.characters), pageCount |-> Len(story.pages),
     thumbnailImage |-> generateThumbnail(story), storageSize |-> StorySize(story)]

\* JSON.parse in a try: text that does not parse reads as no story
getStoredStoryMetas(st) == IF st.ls.metaOk THEN st.ls.meta ELSE <<>>

RECURSIVE SumSizes(_)
SumSizes(S) ==
    IF S = {} THEN 0
    ELSE LET b == CHOOSE x \in S : TRUE IN StorySize(Deserialize(b.story)) + SumSizes(S \ {b})

\* the total size of the values under keys starting with 'memorytales_stories'
getStorageUsage(st) ==
    SumSizes(st.ls.bodies) + (IF st.ls.meta = <<>> /\ st.ls.metaOk THEN 0 ELSE 1)

RemoveBodies(st, ids) == [st EXCEPT !.ls.bodies = {b \in st.ls.bodies : b.id \notin ids}]

\* every key that starts with 'memorytales_stories' is removed
clearAllStories(st) ==
    [Log(st, "clear") EXCEPT !.ls.bodies = {}, !.ls.meta = <<>>, !.ls.metaOk = TRUE]

\* cleanupOldStories and saveStoredStoryMetas call each other, and when every further write
\* of the index is refused the calls nest until the call stack is exhausted.  The RangeError
\* reaches the catch of a cleanupOldStories (a catch nearer the limit that cannot make its
\* own call passes it outwards), whose last resort is clearAllStories; that call either
\* clears the stories or is itself cut short inside its own try, and every frame then
\* returns normally.
StackExhausted(st) ==
    IF st.sweep = "all" THEN clearAllStories(Log(st, "exhausted")) ELSE Log(st, "exhausted")

\* every failed write of the index starts another cleanup
RECURSIVE cleanupOldStories(_), saveStoredStoryMetas(_, _)
cleanupOldStories(st) ==
    LET stories == getStoredStoryMetas(st)
        recent == Take(SortBy("newer", stories), MAX_STORIES \div 2)
        oldIds == {stories[i].id : i \in 1..Len(stories)}
                      \ {recent[i].id : i \in 1..Len(recent)}
        s1 == RemoveBodies(Log(st, "evict"), oldIds)
    IN IF s1.q = <<>> /\ s1.rest
       THEN StackExhausted(s1)
       ELSE saveStoredStoryMetas(s1, recent)

saveStoredStoryMetas(st, stories) ==
    LET sorted == Take(SortBy("newer", stories), MAX_STORIES) IN
    IF Throws(st)
    THEN cleanupOldStories(Refused(st, "index"))
    ELSE [Wrote(st, "index") EXCEPT !.ls.meta = sorted, !.ls.metaOk = TRUE]

PutBody(st, story) ==
    [st EXCEPT !.ls.bodies = {b \in st.ls.bodies : b.id # story.id}
                               \cup {[id |-> story.id, story |-> Serialize(story),
                                      ok |-> TRUE]}]

\* existingMetas with the story's entry replaced, or appended when it has none
UpsertMeta(metas, meta) ==
    LET i == FirstIndex({x \in 1..Len(metas) : metas[x].id = meta.id}) IN
    IF i > 0 THEN [metas EXCEPT ![i] = meta] ELSE Append(metas, meta)

\* saveStory: [st, saved]
saveStory(st, story) ==
    LET nearlyFull == getStorageUsage(st) * 10 > MAX_STORAGE_SIZE_MB * 8
        s1 == IF nearlyFull THEN cleanupOldStories(st) ELSE st
    IN
    IF Throws(s1)
    THEN \* QuotaExceededError on the body: one cleanup, one retry of the body alone
         LET s2 == cleanupOldStories(Refused(s1, "body")) IN
         IF Throws(s2)
         THEN [st |-> Refused(s2, "body"), saved |-> FALSE]
         ELSE [st |-> PutBody(Wrote(s2, "body"), story), saved |-> TRUE]
    ELSE LET s2 == PutBody(Wrote(s1, "body"), story)
             metas == UpsertMeta(getStoredStoryMetas(s2), StoryMeta(story))
         IN [st |-> saveStoredStoryMetas(s2, metas), saved |-> TRUE]

\* loadStory: the story, or NoStory (null) when the key is absent or its text does not parse
NoStory == [id |-> ""]

\* an exception that leaves loadStory
ThrownStory == [id |-> "", thrown |-> TRUE]

\* loadStory with JSON.parse outside the try
loadStory_NoCatch(st, storyId) ==
    IF \E b \in st.ls.bodies : b.id = storyId
    THEN LET body == CHOOSE b \in st.ls.bodies : b.id = storyId IN
         IF body.ok THEN Deserialize(body.story) ELSE ThrownStory
    ELSE NoStory

loadStory(st, storyId) ==
    IF \E b \in st.ls.bodies : b.id = storyId
    THEN LET body == CHOOSE b \in st.ls.bodies : b.id = storyId IN
         IF body.ok THEN Deserialize(body.story) ELSE NoStory
    ELSE NoStory

\* getAllStoredStories: the index, newest first
getAllStoredStories(st) == SortBy("newer", getStoredStoryMetas(st))

\* deleteStory: [st, deleted]
deleteStory(st, storyId) ==
    LET s1 == RemoveBodies(st, {storyId})
        metas == getStoredStoryMetas(s1)
        updatedMetas == SelectSeq(metas, LAMBDA m : m.id # storyId)
    IN [st |-> saveStoredStoryMetas(s1, updatedMetas), deleted |-> TRUE]

----------------------------------------------------------------------------
(* Story generation orchestrator *)

\* Quota scripts of the three handlers that write to localStorage.
\* loading: no failure; the cache write fails; the cleanup write fails as well
LoadScripts == {<<>>, <<TRUE>>, <<TRUE, TRUE>>}

\* saving after the cover: no failure; the character write fails; the story body fails once;
\* the story body fails twice; the story index fails
SaveScripts == {<<>>, <<TRUE>>, <<FALSE, TRUE>>, <<FALSE, TRUE, FALSE, TRUE>>,
                <<FALSE, FALSE, TRUE>>}

\* saving after the video: no failure; the body fails once; the body fails twice; the
\* index fails
ResaveScripts == {<<>>, <<TRUE>>, <<TRUE, FALSE, TRUE>>, <<FALSE, TRUE>>}

\* what the storage does to the writes of one handler: a script of refusals that ends,
\* or one after which every write is refused
Transient(q) == [q |-> q, rest |-> FALSE, sweep |-> "none"]

Stuck(q, sweep) == [q |-> q, rest |-> TRUE, sweep |-> sweep]

Quiet == Transient(<<>>)

\* saving after the video under every script, or with the index refused for good
ResavePatterns == {Transient(q) : q \in ResaveScripts} \cup {Stuck(<<FALSE>>, "all")}

Handler(store, env) ==
    [ls |-> store, q |-> env.q, rest |-> env.rest, sweep |-> env.sweep, trace |-> <<>>]

(* Progress percentages are fractions: 60 + (currentPanel / totalPanels) * 35 *)
Frac(n, d) == [n |-> n, d |-> d]

Pct(n) == Frac(n, 1)

FracLeq(a, b) == a.n * b.d <= b.n * a.d

\* const progressPercent = 60 + (currentPanel / totalPanels) * 35
PanelProgress(currentPanel, totalPanels) ==
    Frac(60 * totalPanels + currentPanel * 35, totalPanels)

HasVisual(char) == char.generatedDesignImage # NoImage \/ char.base64Image # ""

\* the merge without `id: providedChar.id`: { ...providedChar, ...storedChar }
MergeCharacter_CachedId(providedChar, loadedCharacters) ==
    LET i == FirstIndex({x \in 1..Len(loadedCharacters) :
                            SameName(loadedCharacters[x].name, providedChar.name)}) IN
    IF i > 0 /\ HasVisual(loadedCharacters[i])
    THEN loadedCharacters[i]
    ELSE providedChar

\* the callback of characters.map in loadAndEnhanceCharacters:
\* { ...providedChar, ...storedChar, id: providedChar.id } on a usable hit
MergeCharacter(providedChar, loadedCharacters) ==
    LET i == FirstIndex({x \in 1..Len(loadedCharacters) :
                            SameName(loadedCharacters[x].name, providedChar.name)}) IN
    IF i > 0 /\ HasVisual(loadedCharacters[i])
    THEN [loadedCharacters[i] EXCEPT !.id = providedChar.id]
    ELSE providedChar

\* !char.description && !char.generatedDescription && !char.base64Image
NeedsDescription(char) ==
    char.description = "" /\ char.generatedDescription = "" /\ char.base64Image = ""

\* one element of the array generateCharacterDescriptions returns
Described(char) ==
    [char EXCEPT !.description = "generated description",
                 !.generatedDescription = "generated appearance"]

\* the array generateCharacterDescriptions returns
DescribedAll(chars) == [k \in 1..Len(chars) |-> Described(chars[k])]

\* mergedCharacters.map(char => enhancedCharacters.find(e => e.id === char.id) || char)
MergeDescriptions(merged, enhanced) ==
    [k \in 1..Len(merged) |->
        LET i == FirstIndex({x \in 1..Len(enhanced) : enhanced[x].id = merged[k].id}) IN
        IF i > 0 THEN enhanced[i] ELSE merged[k]]

RECURSIVE CountPanels(_)
CountPanels(pages) ==
    IF pages = <<>> THEN 0 ELSE Len(Head(pages).panels) + CountPanels(Tail(pages))

NoCall == [op |-> "none", characters |-> <<>>, panelChars |-> {}, parts |-> <<>>]

PanelCall(p, chars) ==
    [op |-> "panel", characters |-> chars, panelChars |-> p.characters,
     parts |-> PanelImageParts(chars, p.characters)]

CoverCall(chars) ==
    [op |-> "cover", characters |-> chars, panelChars |-> {},
     parts |-> CoverImageParts(chars)]

StoryError(cause) == [error |-> <<"Failed to generate story", "AI service failed", cause>>]

NoOutcome == [error |-> <<>>]

\* pagesWithArt: each page with its illustrated panels
PagesWithArt(pages, panelsWithArt) ==
    [k \in 1..Len(pages) |-> [pages[k] EXCEPT !.panels = panelsWithArt[k]]]

\* one end of a call the run makes: page and panel are 0 but for a panel's illustration
CallEvent(stage, page, panel, ev) == [stage |-> stage, page |-> page, panel |-> panel, ev |-> ev]

\* a call is made and awaited
Started(log, stage, page, panel) == Append(log, CallEvent(stage, page, panel, "start"))

\* the awaited call settles
Settled(log) == Append(log, [log[Len(log)] EXCEPT !.ev = "end"])

\* a call that returns before the run goes on: the methods of the two caches
Made(log, stage) == Settled(Started(log, stage, 0, 0))

\* if (coverImage) without the test: the cover video is requested for every story
WantsVideo_Always(cover) == TRUE

\* Step 7: if (coverImage)
WantsVideo(cover) == cover # NoImage

\* Step 1 up to the first await: load, merge, and decide whether descriptions are needed
PrepareCharacters ==
    /\ pc = "start"
    /\ \E q \in LoadScripts :
         LET names == [k \in 1..Len(argCharacters) |-> argCharacters[k].name]
             r == loadCharactersForStory(Handler(ls, Transient(q)), names, clock)
             merged == [k \in 1..Len(argCharacters) |->
                           MergeCharacter(argCharacters[k], r.loaded)]
             needing == SelectSeq(merged, NeedsDescription)
         IN
         /\ ls' = r.st.ls
         /\ working' = merged
         /\ IF needing # <<>>
            THEN /\ progress' = progress \o <<Pct(5), Pct(10), Pct(15)>>
                 /\ calls' = Started(Made(calls, "load"), "describe", 0, 0)
                 /\ pc' = "describe"
            ELSE /\ progress' = progress \o <<Pct(5), Pct(10), Pct(25)>>
                 /\ calls' = Started(Made(calls, "load"), "structure", 0, 0)
                 /\ pc' = "structure"
    /\ clock' = clock + 1
    /\ UNCHANGED <<argCharacters, providerStory, storyData, designs, art, pageIdx, panelIdx,
                   coverImage, finalStory, saved, request, failed, outcome>>
    /\ UNCHANGED <<clientVars, videoVars, libVars>>

\* the position of the first panel after (pageNo, panelNo) in reading order
NextPanel(pages, pageNo, panelNo) ==
    IF pageNo > 0 /\ panelNo < Len(pages[pageNo].panels)
    THEN <<pageNo, panelNo + 1>>
    ELSE <<CHOOSE j \in (pageNo + 1)..Len(pages) :
               /\ pages[j].panels # <<>>
               /\ \A i \in (pageNo + 1)..(j - 1) : pages[i].panels = <<>>, 1>>

\* currentPanel when the loops stand at (pageNo, panelNo)
PanelNumber(pages, pageNo, panelNo) == CountPanels(SubSeq(pages, 1, pageNo - 1)) + panelNo

\* A plausible slip: the cover image is requested outside any try block of its own.
Contained_CoverFatal == {"panel", "video"}

\* the awaits of generateCompleteStory whose rejection is caught on the spot: each panel's
\* illustration (generatePanelArt), the cover image and the cover video
Contained == {"panel", "cover", "video"}

\* the outer catch: throw new Error(`Failed to generate story: ${error.message}`)
Abort(cause) ==
    /\ pc' = "raised"
    /\ outcome' = StoryError(cause)
    /\ calls' = Settled(calls)
    /\ UNCHANGED <<argCharacters, providerStory, ls, clock, working, storyData, designs, art,
                   pageIdx, panelIdx, coverImage, finalStory, saved, progress, request>>

\* geminiService.generateCharacterDescriptions settles
DescribeSettles ==
    /\ pc = "describe"
    /\ \E ok \in BOOLEAN :
         /\ failed' = IF ok THEN failed ELSE failed \cup {"describe"}
         /\ IF ~ok /\ "describe" \notin Contained
            THEN Abort("description call failed")
            ELSE /\ working' = MergeDescriptions(
                                   working, DescribedAll(SelectSeq(working, NeedsDescription)))
                 /\ progress' = Append(progress, Pct(25))
                 /\ calls' = Started(Settled(calls), "structure", 0, 0)
                 /\ pc' = "structure"
                 /\ UNCHANGED <<argCharacters, providerStory, ls, clock, storyData, designs, art,
                                pageIdx, panelIdx, coverImage, finalStory, saved, request,
                                outcome>>
    /\ UNCHANGED <<clientVars, videoVars, libVars>>

\* geminiService.generateStory settles; on success the run goes on to the first
\* illustration request (a panel's, or the cover's when the story has no panel)
StructureSettles ==
    /\ pc = "structure"
    /\ \E ok \in BOOLEAN :
         /\ failed' = IF ok THEN failed ELSE failed \cup {"structure"}
         /\ IF ~ok /\ "structure" \notin Contained
            THEN Abort("story call failed")
            ELSE LET withDesigns == SelectSeq(working, HasVisual)
                     pages == providerStory.pages
                     total == CountPanels(pages)
                 IN
                 /\ storyData' = providerStory
                 /\ designs' = withDesigns
                 /\ art' = [k \in 1..Len(pages) |-> <<>>]
                 /\ IF total > 0
                    THEN LET first == NextPanel(pages, 0, 0) IN
                         /\ pageIdx' = first[1]
                         /\ panelIdx' = first[2]
                         /\ progress' = progress \o <<Pct(35), Pct(45), PanelProgress(1, total)>>
                         /\ request' = PanelCall(pages[first[1]].panels[first[2]], withDesigns)
                         /\ calls' = Started(Settled(calls), "panel", first[1], first[2])
                         /\ pc' = "panel"
                    ELSE /\ progress' = progress \o <<Pct(35), Pct(45), Pct(85)>>
                         /\ request' = CoverCall(withDesigns)
                         /\ calls' = Started(Settled(calls), "cover", 0, 0)
                         /\ pc' = "cover"
                         /\ UNCHANGED <<pageIdx, panelIdx>>
                 /\ UNCHANGED <<argCharacters, providerStory, ls, clock, working, coverImage,
                                finalStory, saved, outcome>>
    /\ UNCHANGED <<clientVars, videoVars, libVars>>

GeneratedStory(id, chars, pages, title, createdAt, cover) ==
    [id |-> id, config |-> [theme |-> "funny", style |-> "comic"], characters |-> chars,
     pages |-> pages, title |-> title, createdAt |-> createdAt, coverImage |-> cover,
     coverVideo |-> "", coverVideoRequestId |-> ""]

\* A plausible slip: a panel whose illustration failed is left out of the page.
KeepPanel_DropFailed(panelsWithArt, panel, ok, illustration) ==
    IF ok THEN Append(panelsWithArt, [panel EXCEPT !.imageUrl = illustration])
    ELSE panelsWithArt

\* the try/catch in the inner loop of generatePanelArt:
\* panelsWithArt.push({ ...panel, imageUrl: illustration }), or panelsWithArt.push(panel)
KeepPanel(panelsWithArt, panel, ok, illustration) ==
    IF ok THEN Append(panelsWithArt, [panel EXCEPT !.imageUrl = illustration])
    ELSE Append(panelsWithArt, panel)

\* geminiService.generatePanelIllustration settles for the current panel; the loop keeps
\* the panel, with or without its image, and goes on to the next request
PanelSettles ==
    /\ pc = "panel"
    /\ \E ok \in BOOLEAN :
         LET pages == storyData.pages
             total == CountPanels(pages)
             currentPanel == PanelNumber(pages, pageIdx, panelIdx)
             p == pages[pageIdx].panels[panelIdx]
             illustration == DataUri("image/png", Tag("IMG", currentPanel))
         IN
         /\ failed' = IF ok THEN failed ELSE failed \cup {p.id}
         /\ IF ~ok /\ "panel" \notin Contained
            THEN Abort("panel call failed")
            ELSE /\ art' = [art EXCEPT ![pageIdx] = KeepPanel(@, p, ok, illustration)]
                 /\ IF currentPanel < total
                    THEN LET next == NextPanel(pages, pageIdx, panelIdx) IN
                         /\ pageIdx' = next[1]
                         /\ panelIdx' = next[2]
                         /\ progress' = Append(progress, PanelProgress(currentPanel + 1, total))
                         /\ request' = PanelCall(pages[next[1]].panels[next[2]], designs)
                         /\ calls' = Started(Settled(calls), "panel", next[1], next[2])
                         /\ pc' = "panel"
                    ELSE /\ progress' = Append(progress, Pct(85))
                         /\ request' = CoverCall(designs)
                         /\ calls' = Started(Settled(calls), "cover", 0, 0)
                         /\ pc' = "cover"
                         /\ UNCHANGED <<pageIdx, panelIdx>>
                 /\ UNCHANGED <<argCharacters, providerStory, ls, clock, working, storyData,
                                designs, coverImage, finalStory, saved, outcome>>
    /\ UNCHANGED <<clientVars, videoVars, libVars>>

\* geminiService.generateCoverImage settles; the story is compiled and saved, and the
\* cover video is requested when there is a cover image
CoverSettles ==
    /\ pc = "cover"
    /\ \E ok \in BOOLEAN, q \in SaveScripts, key \in {"", "fal-key"} :
         LET cover == IF ok THEN DataUri("image/png", "COVER") ELSE NoImage
             story == GeneratedStory("story-1", designs,
                                     PagesWithArt(storyData.pages, art),
                                     storyData.title, clock, cover)
             s1 == saveCharacters(Handler(ls, Transient(q)), designs, clock + 1)
             s2 == saveStory(s1, story)
             pre == VideoPrecondition(cover, key)
             stored == Made(Made(Settled(calls), "saveCharacters"), "saveStory")
         IN
         IF ~ok /\ "cover" \notin Contained
         THEN /\ failed' = failed \cup {"cover"}
              /\ Abort("cover call failed")
         ELSE /\ coverImage' = cover
              /\ finalStory' = story
              /\ ls' = s2.st.ls
              /\ saved' = Append(saved, s2.saved)
              /\ clock' = clock + 2
              /\ IF WantsVideo(cover)
                 THEN IF pre # <<>>
                      THEN IF "video" \in Contained
                           THEN /\ progress' = progress \o <<Pct(85), Pct(90), Pct(95), Pct(100)>>
                                /\ calls' = Made(stored, "video")
                                /\ pc' = "returned"
                                /\ outcome' = story
                                /\ failed' = failed \cup {"video"}
                           ELSE /\ progress' = progress \o <<Pct(85), Pct(90), Pct(95)>>
                                /\ calls' = Made(stored, "video")
                                /\ pc' = "raised"
                                /\ outcome' = StoryError("video call failed")
                                /\ failed' = failed \cup {"video"}
                      ELSE /\ progress' = progress \o <<Pct(85), Pct(90), Pct(95)>>
                           /\ calls' = Started(stored, "video", 0, 0)
                           /\ pc' = "video"
                           /\ UNCHANGED <<outcome, failed>>
                 ELSE /\ progress' = progress \o <<Pct(85), Pct(90), Pct(100)>>
                      /\ calls' = stored
                      /\ pc' = "returned"
                      /\ outcome' = story
                      /\ failed' = failed \cup {"cover"}
              /\ UNCHANGED <<argCharacters, providerStory, working, storyData, designs, art,
                             pageIdx, panelIdx, request>>
    /\ UNCHANGED <<clientVars, videoVars, libVars>>

\* finalStory.coverVideo = videoResult.videoUrl, without the request id
RecordVideo_UrlOnly(story, videoUrl, requestId) ==
    [story EXCEPT !.coverVideo = videoUrl]

\* finalStory.coverVideo = videoResult.videoUrl;
\* finalStory.coverVideoRequestId = videoResult.requestId
RecordVideo(story, videoUrl, requestId) ==
    [story EXCEPT !.coverVideo = videoUrl, !.coverVideoRequestId = requestId]

\* videoGenerator.generateCoverVideo settles; a finished video is recorded and the story
\* saved again
VideoSettles ==
    /\ pc = "video"
    /\ \E ok \in BOOLEAN, env \in ResavePatterns :
         /\ failed' = IF ok THEN failed ELSE failed \cup {"video"}
         /\ IF ~ok /\ "video" \notin Contained
            THEN Abort("video call failed")
            ELSE /\ IF ok
                    THEN LET story == RecordVideo(finalStory, "video-url", "request-1")
                             s == saveStory(Handler(ls, env), story)
                         IN /\ finalStory' = story
                            /\ ls' = s.st.ls
                            /\ saved' = Append(saved, s.saved)
                            /\ calls' = Made(Settled(calls), "saveStory")
                            /\ outcome' = story
                    ELSE /\ outcome' = finalStory
                         /\ calls' = Settled(calls)
                         /\ UNCHANGED <<finalStory, ls, saved>>
                 /\ progress' = Append(progress, Pct(100))
                 /\ pc' = "returned"
                 /\ UNCHANGED <<argCharacters, providerStory, clock, working, storyData, designs,
                                art, pageIdx, panelIdx, coverImage, request>>
    /\ UNCHANGED <<clientVars, videoVars, libVars>>

----------------------------------------------------------------------------
(* The two caches driven through their public methods, one call at a time, *)
(* from storages the methods leave behind and from damaged ones.           *)

MaxCalls == 2

\* the events of a trace
Events(trace) == {trace[i] : i \in 1..Len(trace)}

Count(trace, event) == Cardinality({i \in 1..Len(trace) : trace[i] = event})

OnePanel(k, illustrated) ==
    <<[pageNumber |-> 1,
       panels |-> <<[id |-> Tag("panel-", k), characters |-> {},
                     imageUrl |-> IF illustrated THEN DataUri("image/png", Tag("P", k))
                                  ELSE NoImage]>>]>>

\* the k-th story of the library, created at time k
LibraryStory(k) ==
    GeneratedStory(Tag("old-", k), <<>>, OnePanel(k, k % 2 = 1), Tag("title-", k), k, NoImage)

\* the storage after the first n library stories were saved in turn
RECURSIVE Library(_)
Library(n) ==
    IF n = 0 THEN EmptyStorage
    ELSE saveStory(Handler(Library(n - 1), Quiet), LibraryStory(n)).st.ls

\* the text under a key cut short: it no longer parses
WithDamagedIndex(store) == [store EXCEPT !.metaOk = FALSE]

WithDamagedBody(store, id) ==
    [store EXCEPT !.bodies = {IF b.id = id THEN [b EXCEPT !.ok = FALSE] ELSE b : b \in @}]

\* a cached character used `usageCount` times, last at time `lastUsed`
CachedCharacter(i, lastUsed, usageCount) ==
    StoredCharacter(Character(Tag("stored-", i), toLowerCase(CharName(i)), "cached description",
                              DataUri("image/png", Tag("DS", i)), "", ""),
                    lastUsed, usageCount)

\* n cached characters in the order saveStoredCharacters leaves them
CacheOf(n) ==
    SortBy("ranked", [i \in 1..n |-> CachedCharacter(i, i, 1 + (i % 3))])

\* an element that lost its name: { id, lastUsed, usageCount }
MalformedEntry ==
    [id |-> "stored-0", name |-> <<>>, description |-> "", generatedDescription |-> "",
     generatedDesignImage |-> NoImage, base64Image |-> "", mimeType |-> "",
     lastUsed |-> 1, usageCount |-> 1]

WithCache(cache) == [EmptyStorage EXCEPT !.chars = cache]

StorePresets ==
    {EmptyStorage, Library(2), Library(MAX_STORIES \div 2 + 1),
     WithDamagedIndex(Library(2)), WithDamagedBody(Library(2), "old-1"),
     WithCache(CacheOf(2)), WithCache(CacheOf(MAX_CHARACTERS - 1)),
     [WithCache(CacheOf(2)) EXCEPT !.charsOk = FALSE],
     WithCache(SortBy("ranked", <<MalformedEntry>> \o CacheOf(2))),
     WithCache(SortBy("ranked", CacheOf(2) \o <<MalformedEntry>>))}

\* refusals of the writes of a story-cache method
StoryPatterns ==
    {Quiet, Transient(<<TRUE>>), Transient(<<FALSE, TRUE>>), Transient(<<TRUE, TRUE>>),
     Transient(<<TRUE, FALSE, TRUE>>), Stuck(<<>>, "all"), Stuck(<<FALSE>>, "all"),
     Stuck(<<FALSE>>, "none")}

\* refusals of the writes of a character-cache method
CachePatterns == {Quiet, Transient(<<TRUE>>), Transient(<<TRUE, TRUE>>)}

BodyIds(store) == {b.id : b \in store.bodies}

\* the ids of the oldest and of the newest readable body
EndIds(store) ==
    LET readable == {b \in store.bodies : b.ok} IN
    {b.id : b \in {x \in readable :
                     \/ \A y \in readable : x.story.createdAt[2] <= y.story.createdAt[2]
                     \/ \A y \in readable : x.story.createdAt[2] >= y.story.createdAt[2]}}

\* a story never saved before, and stored stories that gained a cover video
StoriesToSave(store, now) ==
    {GeneratedStory(Tag("story-", now), <<>>, OnePanel(now, TRUE), "title", now, NoImage)}
      \cup {RecordVideo(loadStory(Handler(store, Quiet), id), "video-url", "request-1") :
               id \in EndIds(store)}

\* a cached name in another case, and a name never cached
NamesToLoad == {<<CharName(1)>>, <<CharName(1), CharName(0)>>, <<CharName(0), CharName(1)>>}

FreshCharacter(i, now) ==
    Character(Tag("c", 100 * now + i), CharName(100 * now + i), "described",
              DataUri("image/png", Tag("D", 100 * now + i)), "", "")

\* a cached character with a new design; the same under the id of another cached
\* character (the selector numbers the characters of every story char-1, char-2, ...);
\* three characters never cached; one without a design or photo
CharactersToSave(now) ==
    {<<Character("c1", CharName(1), "described", DataUri("image/png", "D1"), "", "")>>,
     <<Character(Tag("stored-", 2), CharName(1), "described", DataUri("image/png", "D1"),
                 "", "")>>,
     <<FreshCharacter(1, now), FreshCharacter(2, now), FreshCharacter(3, now)>>,
     <<Character("c0", CharName(0), "", NoImage, "", "")>>}

NoStoreCall ==
    [op |-> "none", id |-> "", story |-> NoStory, characters |-> <<>>, names |-> <<>>,
     env |-> Quiet, before |-> EmptyStorage]

NoReturn ==
    [raised |-> FALSE, saved |-> FALSE, deleted |-> FALSE, story |-> NoStory, list |-> <<>>,
     loaded |-> <<>>, trace |-> <<>>]

\* the method returned with the handler state st: an exception left it when the trace
\* says so
StoreReturned(st) == [NoReturn EXCEPT !.trace = st.trace, !.raised = "throw" \in Events(st.trace)]

\* the clock starts after every date of the presets
FirstCallTime == 100

StoreIdle ==
    /\ sLs = EmptyStorage
    /\ sNow = FirstCallTime
    /\ sCalls = 0
    /\ sCall = NoStoreCall
    /\ sReturn = NoReturn

StoreStep ==
    /\ sCalls < MaxCalls
    /\ sCalls' = sCalls + 1
    /\ sNow' = sNow + 1
    /\ UNCHANGED <<clientVars, videoVars, pipeVars, descVars, pollVars, uiVars>>

SaveStoryCall ==
    /\ StoreStep
    /\ \E story \in StoriesToSave(sLs, sNow), env \in StoryPatterns :
         LET r == saveStory(Handler(sLs, env), story) IN
         /\ sCall' = [NoStoreCall EXCEPT !.op = "saveStory", !.id = story.id, !.story = story,
                                         !.env = env, !.before = sLs]
         /\ sLs' = r.st.ls
         /\ sReturn' = [StoreReturned(r.st) EXCEPT !.saved = r.saved]

LoadStoryCall ==
    /\ StoreStep
    /\ \E id \in BodyIds(sLs) \cup {"missing"} :
         /\ sCall' = [NoStoreCall EXCEPT !.op = "loadStory", !.id = id, !.before = sLs]
         /\ sReturn' = [NoReturn EXCEPT !.story = loadStory(Handler(sLs, Quiet), id),
                                        !.raised = loadStory(Handler(sLs, Quiet), id)
                                                       = ThrownStory]
         /\ UNCHANGED sLs

GetAllStoredStoriesCall ==
    /\ StoreStep
    /\ sCall' = [NoStoreCall EXCEPT !.op = "getAllStoredStories", !.before = sLs]
    /\ sReturn' = [NoReturn EXCEPT !.list = getAllStoredStories(Handler(sLs, Quiet))]
    /\ UNCHANGED sLs

DeleteStoryCall ==
    /\ StoreStep
    /\ \E id \in EndIds(sLs) \cup {"missing"}, env \in StoryPatterns :
         LET r == deleteStory(Handler(sLs, env), id) IN
         /\ sCall' = [NoStoreCall EXCEPT !.op = "deleteStory", !.id = id, !.env = env,
                                         !.before = sLs]
         /\ sLs' = r.st.ls
         /\ sReturn' = [StoreReturned(r.st) EXCEPT !.deleted = r.deleted]

SaveCharactersCall ==
    /\ StoreStep
    /\ \E characters \in CharactersToSave(sNow), env \in CachePatterns :
         LET st == saveCharacters(Handler(sLs, env), characters, sNow) IN
         /\ sCall' = [NoStoreCall EXCEPT !.op = "saveCharacters", !.characters = characters,
                                         !.env = env, !.before = sLs]
         /\ sLs' = st.ls
         /\ sReturn' = StoreReturned(st)

LoadCharactersForStoryCall ==
    /\ StoreStep
    /\ \E names \in NamesToLoad, env \in CachePatterns :
         LET r == loadCharactersForStory(Handler(sLs, env), names, sNow) IN
         /\ sCall' = [NoStoreCall EXCEPT !.op = "loadCharactersForStory", !.names = names,
                                         !.env = env, !.before = sLs]
         /\ sLs' = r.st.ls
         /\ sReturn' = [StoreReturned(r.st) EXCEPT !.loaded = r.loaded]

NextStore ==
    \/ SaveStoryCall
    \/ LoadStoryCall
    \/ GetAllStoredStoriesCall
    \/ DeleteStoryCall
    \/ SaveCharactersCall
    \/ LoadCharactersForStoryCall

----------------------------------------------------------------------------
(* pollVideoStatus: the status of the video job is fetched every five      *)
(* seconds until the job ends or the attempts run out.                     *)

maxAttempts == 120

VideoState(status, percent, message, videoUrl, requestId) ==
    [status |-> status, progress |-> percent, message |-> message, videoUrl |-> videoUrl,
     requestId |-> requestId]

\* progressMap[statusData.status] || 0
ProgressOf(status) ==
    CASE status = "IN_QUEUE" -> 10
      [] status = "IN_PROGRESS" -> 50
      [] status = "COMPLETED" -> 100
      [] OTHER -> 0

getStatusMessage(status) ==
    CASE status = "IN_QUEUE" -> "Video generation queued..."
      [] status = "IN_PROGRESS" -> "Creating your animated cover video..."
      [] status = "COMPLETED" -> "Video generation completed!"
      [] status = "FAILED" -> "Video generation failed"
      [] OTHER -> "Processing..."

\* what the status endpoint answers: a status, or a response that is not ok
StatusAnswers == {"IN_QUEUE", "IN_PROGRESS", "COMPLETED", "FAILED", "UNKNOWN", "not ok"}

PollError(message) == VideoState("error", 0, message, "", "")

\* the attempts run out one query late
OutOfAttempts_OffByOne(attempts) == attempts > maxAttempts

OutOfAttempts(attempts) == attempts >= maxAttempts

PollIdle ==
    /\ pPc = "idle"
    /\ pAttempts = 0
    /\ pQueries = 0
    /\ pVideoState = VideoState("idle", 0, "", "", "")

\* generateVideo has started the job and calls pollVideoStatus: the first status query
PollStart ==
    /\ pPc = "idle"
    /\ pPc' = "status"
    /\ pAttempts' = 0
    /\ pQueries' = 1
    /\ pVideoState' = VideoState("generating", 0, "Initializing video generation...", "", "")
    /\ UNCHANGED <<clientVars, videoVars, pipeVars, descVars, storeVars, uiVars>>

\* the status query settles
StatusSettles ==
    /\ pPc = "status"
    /\ \E answer \in StatusAnswers :
         IF answer = "not ok"
         THEN /\ pVideoState' = PollError("Failed to check video status")
              /\ pPc' = "ended"
              /\ UNCHANGED pAttempts
         ELSE IF answer = "COMPLETED"
         THEN /\ pVideoState' = [pVideoState EXCEPT !.progress = ProgressOf(answer),
                                                   !.message = getStatusMessage(answer)]
              /\ pPc' = "result"
              /\ UNCHANGED pAttempts
         ELSE IF answer = "FAILED"
         THEN /\ pVideoState' = PollError("Video generation failed")
              /\ pPc' = "ended"
              /\ UNCHANGED pAttempts
         ELSE /\ pAttempts' = pAttempts + 1
              /\ IF OutOfAttempts(pAttempts + 1)
                 THEN /\ pVideoState' = PollError("Video generation timed out")
                      /\ pPc' = "ended"
                 ELSE /\ pVideoState' = [pVideoState EXCEPT
                                            !.progress = ProgressOf(answer),
                                            !.message = getStatusMessage(answer)]
                      /\ pPc' = "timer"
    /\ UNCHANGED pQueries
    /\ UNCHANGED <<clientVars, videoVars, pipeVars, descVars, storeVars, uiVars>>

\* setTimeout(poll, 5000) fires: the next status query
TimerFires ==
    /\ pPc = "timer"
    /\ pPc' = "status"
    /\ pQueries' = pQueries + 1
    /\ UNCHANGED <<pAttempts, pVideoState>>
    /\ UNCHANGED <<clientVars, videoVars, pipeVars, descVars, storeVars, uiVars>>

\* the fetch of the result settles
ResultSettles ==
    /\ pPc = "result"
    /\ \E ok \in BOOLEAN :
         pVideoState' = IF ok
                        THEN VideoState("completed", 100, "Cover video generated successfully!",
                                        "video-url", "request-1")
                        ELSE PollError("Failed to fetch")
    /\ pPc' = "ended"
    /\ UNCHANGED <<pAttempts, pQueries>>
    /\ UNCHANGED <<clientVars, videoVars, pipeVars, descVars, storeVars, uiVars>>

NextPoll ==
    \/ PollStart
    \/ StatusSettles
    \/ TimerFires
    \/ ResultSettles

----------------------------------------------------------------------------
(* createAnimationPrompt: the prompt of the cover video, by its parts.     *)

\* StoryTheme and StoryStyle (src/lib/types.ts)
StoryThemes == {"funny", "adventurous", "educational", "magical", "mystery"}

StoryStyles == {"comic", "picture_book", "fairy_tale", "graphic_novel", "pop_up"}

\* String.prototype.toLowerCase on the themes drawn
LowerCaseTheme(theme) == IF theme = "Mystery" THEN "mystery" ELSE theme

\* the actionPrompt and ambiance of the switch, by their first words
ThemeGuidance(storyTheme) ==
    CASE LowerCaseTheme(storyTheme) = "adventure" ->
             [action |-> "subtle heroic poses, gentle wind, sparkles or magical particles",
              ambiance |-> "epic and inspiring, warm golden lighting"]
      [] LowerCaseTheme(storyTheme) = "friendship" ->
             [action |-> "warm expressions, gentle swaying, hearts or butterflies",
              ambiance |-> "warm and cozy, soft pastel lighting"]
      [] LowerCaseTheme(storyTheme) = "mystery" ->
             [action |-> "curious poses, shadows moving, fog or mist",
              ambiance |-> "intriguing and mysterious, dramatic lighting and shadows"]
      [] LowerCaseTheme(storyTheme) = "fantasy" ->
             [action |-> "magical poses, glowing magical particles",
              ambiance |-> "magical and enchanting, mystical colorful lighting"]
      [] OTHER ->
             [action |-> "gentle natural movements, leaves or petals",
              ambiance |-> "pleasant and engaging, natural warm lighting"]

NoPrompt == [base |-> <<>>, action |-> "", ambiance |-> "", context |-> <<>>]

\* createAnimationPrompt: the art style and the first two names of the base prompt, the
\* guidance of the theme, and the narrations of the story context
createAnimationPrompt(story) ==
    LET storyTheme == IF story.theme # "" THEN story.theme ELSE "adventure"
        artStyle == IF story.style # "" THEN story.style ELSE "cartoon"
    IN [base |-> <<artStyle, Take(story.names, 2)>>,
        action |-> ThemeGuidance(storyTheme).action,
        ambiance |-> ThemeGuidance(storyTheme).ambiance,
        context |-> SelectSeq(story.narrations, LAMBDA n : n # "")]

\* the stories a prompt is made for
PromptStories ==
    [theme : StoryThemes \cup {"", "Mystery"},
     style : StoryStyles \cup {""},
     names : {<<>>, <<"Koko">>, <<"Koko", "Mia", "Zed">>},
     narrations : {<<>>, <<"Once upon a time", "">>}]

PromptIdle ==
    /\ aStory = [theme |-> "", style |-> "", names |-> <<>>, narrations |-> <<>>]
    /\ aPrompt = NoPrompt

CreatePromptCall ==
    /\ aPrompt = NoPrompt
    /\ aPrompt' = createAnimationPrompt(aStory)
    /\ UNCHANGED aStory
    /\ UNCHANGED <<clientVars, videoVars, pipeVars, descVars, storeVars, pollVars, pageVars>>

----------------------------------------------------------------------------
(* useVideoGeneration: generateVideo, the poll chain it starts, resetVideo. *)
(* Nothing in the hook cancels a pending fetch or timer.                    *)

\* calls of generateVideo explored
MaxLoops == 2

\* non-final answers of the status endpoint explored for one job
MaxPolls == 2

HookLoop(at, attempts) == [pc |-> at, attempts |-> attempts]

\* the positions of a chain at which its poll loop is running
PollingPcs == {"status", "result", "timer"}

ActiveLoops(loops) == {i \in DOMAIN loops : loops[i].pc \in PollingPcs}

HookIdle ==
    /\ hState = VideoState("idle", 0, "", "", "")
    /\ hLoops = <<>>
    /\ hReset = FALSE
    /\ hToast = ""

hookRest == <<clientVars, videoVars, pipeVars, descVars, storeVars, pollVars, promptVars,
              designVars, homeVars>>

\* generateVideo(story): without a cover image a toast and nothing else; otherwise the state
\* becomes generating and the POST that starts the job is issued
generateVideo ==
    /\ Len(hLoops) < MaxLoops
    /\ \E hasCover \in BOOLEAN :
         IF ~hasCover
         THEN /\ hToast' = "Story must have a cover image to generate video"
              /\ UNCHANGED <<hState, hLoops, hReset>>
         ELSE /\ hState' = VideoState("generating", 0, "Initializing video generation...",
                                      "", "")
              /\ hLoops' = Append(hLoops, HookLoop("start", 0))
              /\ hReset' = FALSE
              /\ UNCHANGED hToast
    /\ UNCHANGED hookRest

\* the POST settles: not ok is caught by generateVideo; ok calls pollVideoStatus, whose
\* first poll() issues the first status query
PostSettles ==
    /\ \E i \in DOMAIN hLoops, ok \in BOOLEAN :
         /\ hLoops[i].pc = "start"
         /\ IF ok
            THEN /\ hLoops' = [hLoops EXCEPT ![i].pc = "status"]
                 /\ UNCHANGED <<hState, hToast>>
            ELSE /\ hLoops' = [hLoops EXCEPT ![i].pc = "ended"]
                 /\ hState' = PollError("Failed to start video generation")
                 /\ hToast' = "Failed to generate cover video"
    /\ UNCHANGED hReset
    /\ UNCHANGED hookRest

\* a status query of poll() settles
pollSettles ==
    /\ \E i \in DOMAIN hLoops, answer \in StatusAnswers :
         /\ hLoops[i].pc = "status"
         /\ answer \in {"IN_QUEUE", "IN_PROGRESS", "UNKNOWN"} => hLoops[i].attempts < MaxPolls
         /\ IF answer = "not ok"
            THEN /\ hState' = PollError("Failed to check video status")
                 /\ hLoops' = [hLoops EXCEPT ![i].pc = "ended"]
                 /\ hToast' = "Video generation failed"
            ELSE IF answer = "COMPLETED"
            THEN /\ hState' = [hState EXCEPT !.progress = ProgressOf(answer),
                                             !.message = getStatusMessage(answer)]
                 /\ hLoops' = [hLoops EXCEPT ![i].pc = "result"]
                 /\ UNCHANGED hToast
            ELSE IF answer = "FAILED"
            THEN /\ hState' = PollError("Video generation failed")
                 /\ hLoops' = [hLoops EXCEPT ![i].pc = "ended"]
                 /\ hToast' = "Video generation failed"
            ELSE IF OutOfAttempts(hLoops[i].attempts + 1)
            THEN /\ hState' = PollError("Video generation timed out")
                 /\ hLoops' = [hLoops EXCEPT ![i].pc = "ended", ![i].attempts = @ + 1]
                 /\ hToast' = "Video generation failed"
            ELSE /\ hState' = [hState EXCEPT !.progress = ProgressOf(answer),
                                             !.message = getStatusMessage(answer)]
                 /\ hLoops' = [hLoops EXCEPT ![i].pc = "timer", ![i].attempts = @ + 1]
                 /\ UNCHANGED hToast
    /\ UNCHANGED hReset
    /\ UNCHANGED hookRest

\* setTimeout(poll, 5000) fires
pollTimerFires ==
    /\ \E i \in DOMAIN hLoops :
         /\ hLoops[i].pc = "timer"
         /\ hLoops' = [hLoops EXCEPT ![i].pc = "status"]
    /\ UNCHANGED <<hState, hReset, hToast>>
    /\ UNCHANGED hookRest

\* the fetch of the result settles
pollResultSettles ==
    /\ \E i \in DOMAIN hLoops, ok \in BOOLEAN :
         /\ hLoops[i].pc = "result"
         /\ hLoops' = [hLoops EXCEPT ![i].pc = "ended"]
         /\ IF ok
            THEN /\ hState' = VideoState("completed", 100,
                                         "Cover video generated successfully!",
                                         "video-url", Tag("request-", i))
                 /\ hToast' = "Cover video generated successfully!"
            ELSE /\ hState' = PollError("Failed to fetch")
                 /\ hToast' = "Video generation failed"
    /\ UNCHANGED hReset
    /\ UNCHANGED hookRest

resetVideo ==
    /\ hState' = VideoState("idle", 0, "", "", "")
    /\ hReset' = TRUE
    /\ UNCHANGED <<hLoops, hToast>>
    /\ UNCHANGED hookRest

NextHook ==
    \/ generateVideo
    \/ PostSettles
    \/ pollSettles
    \/ pollTimerFires
    \/ pollResultSettles
    \/ resetVideo

----------------------------------------------------------------------------
(* CharacterDesignViewer: approval, rejection and regeneration of designs. *)
(* The id of a character is its position.                                  *)

\* regenerations in flight explored
MaxFlights == 2

\* what geminiService.generateCharacterDesign returns
DesignImages == {"design-a", "design-b"}

Design(image, approved) == [generatedDesignImage |-> image, designApproved |-> approved]

DesignEvent(op, id, before) == [op |-> op, id |-> id, before |-> before]

\* designCharacters.map(c => c.id === characterId ? {...c, designApproved} : c)
WithApproval(characters, characterId, approved) ==
    [i \in DOMAIN characters |->
        IF i = characterId THEN [characters[i] EXCEPT !.designApproved = approved]
        ELSE characters[i]]

\* designCharacters.map(c => c.id === characterId
\*     ? {...c, generatedDesignImage: designImage, designApproved: false} : c)
WithDesign(closure, characterId, designImage) ==
    [i \in DOMAIN closure |->
        IF i = characterId THEN Design(designImage, FALSE) ELSE closure[i]]

DesignIdle ==
    /\ designCharacters = <<>>
    /\ currentCharacterIndex = 0
    /\ generatingCharacterId = 0
    /\ dFlights = <<>>
    /\ dLast = DesignEvent("", 0, <<>>)

designRest == <<clientVars, videoVars, pipeVars, descVars, storeVars, pollVars, promptVars,
                hookVars, homeVars>>

\* the Approve button of the current character
approveCharacter ==
    /\ designCharacters[currentCharacterIndex + 1].generatedDesignImage # ""
    /\ generatingCharacterId # currentCharacterIndex + 1
    /\ designCharacters' = WithApproval(designCharacters, currentCharacterIndex + 1, TRUE)
    /\ dLast' = DesignEvent("approve", currentCharacterIndex + 1, designCharacters)
    /\ UNCHANGED <<currentCharacterIndex, generatingCharacterId, dFlights>>
    /\ UNCHANGED designRest

\* the Reject button of the current character
rejectCharacter ==
    /\ generatingCharacterId # currentCharacterIndex + 1
    /\ designCharacters' = WithApproval(designCharacters, currentCharacterIndex + 1, FALSE)
    /\ dLast' = DesignEvent("reject", currentCharacterIndex + 1, designCharacters)
    /\ UNCHANGED <<currentCharacterIndex, generatingCharacterId, dFlights>>
    /\ UNCHANGED designRest

\* the Regenerate button of the current character: regenerateCharacterDesign up to its await
regenerateCharacterDesign ==
    /\ generatingCharacterId # currentCharacterIndex + 1
    /\ Len(dFlights) < MaxFlights
    /\ generatingCharacterId' = currentCharacterIndex + 1
    /\ dFlights' = Append(dFlights, [id |-> currentCharacterIndex + 1,
                                     closure |-> designCharacters])
    /\ dLast' = DesignEvent("regenerate", currentCharacterIndex + 1, designCharacters)
    /\ UNCHANGED <<designCharacters, currentCharacterIndex>>
    /\ UNCHANGED designRest

\* generateCharacterDesign settles: regenerateCharacterDesign after its await
RegenerateSettles ==
    /\ \E k \in DOMAIN dFlights, designImage \in DesignImages \cup {"throw"} :
         /\ designCharacters' =
                IF designImage = "throw" THEN designCharacters
                ELSE WithDesign(dFlights[k].closure, dFlights[k].id, designImage)
         /\ dLast' = DesignEvent(IF designImage = "throw" THEN "failed" ELSE "regenerated",
                                 dFlights[k].id, designCharacters)
         /\ dFlights' = SubSeq(dFlights, 1, k - 1) \o SubSeq(dFlights, k + 1, Len(dFlights))
    /\ generatingCharacterId' = 0
    /\ UNCHANGED currentCharacterIndex
    /\ UNCHANGED designRest

\* prevCharacter, nextCharacter and the dots: setCurrentCharacterIndex
setCurrentCharacterIndex ==
    /\ \E index \in 0..(Len(designCharacters) - 1) :
         /\ index # currentCharacterIndex
         /\ currentCharacterIndex' = index
    /\ dLast' = DesignEvent("show", 0, designCharacters)
    /\ UNCHANGED <<designCharacters, generatingCharacterId, dFlights>>
    /\ UNCHANGED designRest

NextDesign ==
    \/ approveCharacter
    \/ rejectCharacter
    \/ regenerateCharacterDesign
    \/ RegenerateSettles
    \/ setCurrentCharacterIndex

----------------------------------------------------------------------------
(* HomePage: the steps of the page and the handlers that move between them. *)

\* what the user may have typed into the prompt field
PagePrompts == {"", " ", "a tale"}

\* String.prototype.trim on the prompts drawn
TrimPrompt(prompt) == IF prompt = " " THEN "" ELSE prompt

\* the Characters select offers 1 to 4
MaxCharacterCount == 4

\* the stories the history lists when the page mounts
HistoryIds == {"story-1", "story-2"}

\* the characters CharacterSelector hands over: one per characterCount, ids char-1..
SelectorCharacters(characterCount) == [i \in 1..characterCount |-> Tag("char-", i)]

HomeIdle ==
    /\ step = "INPUT"
    /\ config = [prompt |-> "", characterCount |-> 2]
    /\ selectedCharacters = <<>>
    /\ generatedStory = ""
    /\ storedStories = {}
    /\ showHistory = FALSE

homeRest == <<clientVars, videoVars, pipeVars, descVars, storeVars, pollVars, promptVars,
              hookVars, designVars>>

\* onChange of the prompt field and onValueChange of the Characters select
setConfig ==
    /\ step = "INPUT"
    /\ \E prompt \in PagePrompts, characterCount \in 1..MaxCharacterCount :
         /\ config' = [prompt |-> prompt, characterCount |-> characterCount]
         /\ config' # config
    /\ UNCHANGED <<step, selectedCharacters, generatedStory, storedStories, showHistory>>
    /\ UNCHANGED homeRest

\* the History button of the header, shown at every step while stories are listed
setShowHistory ==
    /\ storedStories # {}
    /\ showHistory' = ~showHistory
    /\ UNCHANGED <<step, config, selectedCharacters, generatedStory, storedStories>>
    /\ UNCHANGED homeRest

\* handleLoadStory(storyId): storyStorage.loadStory returns the story or null
handleLoadStory ==
    /\ showHistory
    /\ \E storyId \in storedStories, found \in BOOLEAN :
         IF found
         THEN /\ generatedStory' = storyId
              /\ step' = "COMPLETED"
              /\ showHistory' = FALSE
         ELSE UNCHANGED <<generatedStory, step, showHistory>>
    /\ UNCHANGED <<config, selectedCharacters, storedStories>>
    /\ UNCHANGED homeRest

\* handleDeleteStory(storyId): the list is read again after deleteStory
handleDeleteStory ==
    /\ showHistory
    /\ \E storyId \in storedStories, removed \in BOOLEAN :
         storedStories' = IF removed THEN storedStories \ {storyId} ELSE storedStories
    /\ UNCHANGED <<step, config, selectedCharacters, generatedStory, showHistory>>
    /\ UNCHANGED homeRest

\* the Create button, disabled while the trimmed prompt is empty
handleCreateStory ==
    /\ step = "INPUT"
    /\ TrimPrompt(config.prompt) # ""
    /\ step' = "CHARACTER_SETUP"
    /\ UNCHANGED <<config, selectedCharacters, generatedStory, storedStories, showHistory>>
    /\ UNCHANGED homeRest

handleCharactersReady ==
    /\ step = "CHARACTER_SETUP"
    /\ selectedCharacters' = SelectorCharacters(config.characterCount)
    /\ step' = "CHARACTER_DESIGN"
    /\ UNCHANGED <<config, generatedStory, storedStories, showHistory>>
    /\ UNCHANGED homeRest

\* the viewer hands back the characters it was given, with their designs approved
handleCharacterDesignsApproved ==
    /\ step = "CHARACTER_DESIGN"
    /\ selectedCharacters' = selectedCharacters
    /\ step' = "GENERATING"
    /\ UNCHANGED <<config, generatedStory, storedStories, showHistory>>
    /\ UNCHANGED homeRest

handleBackToCharacterSetup ==
    /\ step = "CHARACTER_DESIGN"
    /\ step' = "CHARACTER_SETUP"
    /\ UNCHANGED <<config, selectedCharacters, generatedStory, storedStories, showHistory>>
    /\ UNCHANGED homeRest

handleBackToInput ==
    /\ step = "CHARACTER_SETUP"
    /\ step' = "INPUT"
    /\ UNCHANGED <<config, selectedCharacters, generatedStory, storedStories, showHistory>>
    /\ UNCHANGED homeRest

handleStoryGenerated ==
    /\ step = "GENERATING"
    /\ generatedStory' = "story-new"
    /\ step' = "COMPLETED"
    /\ UNCHANGED <<config, selectedCharacters, storedStories, showHistory>>
    /\ UNCHANGED homeRest

handleBackToCharacters ==
    /\ step = "GENERATING"
    /\ step' = "CHARACTER_SETUP"
    /\ UNCHANGED <<config, selectedCharacters, generatedStory, storedStories, showHistory>>
    /\ UNCHANGED homeRest

\* onHome of the BookViewer
handleStartOver ==
    /\ step = "COMPLETED"
    /\ generatedStory # ""
    /\ step' = "INPUT"
    /\ config' = [prompt |-> "", characterCount |-> 2]
    /\ selectedCharacters' = <<>>
    /\ generatedStory' = ""
    /\ UNCHANGED <<storedStories, showHistory>>
    /\ UNCHANGED homeRest

\* onRegenerate of the BookViewer: setStep(GenerationState.GENERATING)
onRegenerate ==
    /\ step = "COMPLETED"
    /\ generatedStory # ""
    /\ step' = "GENERATING"
    /\ UNCHANGED <<config, selectedCharacters, generatedStory, storedStories, showHistory>>
    /\ UNCHANGED homeRest

NextHome ==
    \/ setConfig
    \/ setShowHistory
    \/ handleLoadStory
    \/ handleDeleteStory
    \/ handleCreateStory
    \/ handleCharactersReady
    \/ handleCharacterDesignsApproved
    \/ handleBackToCharacterSetup
    \/ handleBackToInput
    \/ handleStoryGenerated
    \/ handleBackToCharacters
    \/ handleStartOver
    \/ onRegenerate

PageIdle == HookIdle /\ DesignIdle /\ HomeIdle

UiIdle == PromptIdle /\ PageIdle

LibIdle == DescIdle /\ StoreIdle /\ PollIdle /\ UiIdle

----------------------------------------------------------------------------
(* The runs explored *)

MaxChars == 2

MaxPanels == 3

\* the i-th character as the caller may supply it
CharacterChoices(i) ==
    { Character(Tag("c", i), CharName(i), desc, d, u[1], u[2]) :
        desc \in {"", "described"},
        d \in {NoImage, DataUri("image/png", Tag("D", i))},
        u \in {<<"", "">>, <<Tag("U", i), "image/jpeg">>} }

\* some of them: an approved design, nothing at all and, for the first character, a photo
\* and an approved design
TypicalChoices(i) ==
    { c \in CharacterChoices(i) :
        \/ c.description # "" /\ c.generatedDesignImage # NoImage /\ c.base64Image = ""
        \/ c.description = "" /\ c.generatedDesignImage = NoImage /\ c.base64Image = ""
        \/ i = 1 /\ c.description # "" /\ c.generatedDesignImage # NoImage
                 /\ c.base64Image # "" }

\* the casts of n characters, the i-th one drawn from choices[i]
RECURSIVE Casts(_, _)
Casts(n, choices) ==
    IF n = 0 THEN {<<>>}
    ELSE {Append(c, x) : c \in Casts(n - 1, choices), x \in choices[n]}

CastsUpTo(n, choices) == UNION {Casts(k, choices) : k \in 1..n}

\* the character cache before the run: empty, or one record saved by an earlier run under
\* the first character's name in another spelling
CachedRecords ==
    { StoredCharacter(Character("stored-1", toLowerCase(CharName(1)), desc, d, u[1], u[2]), 0, 1) :
        desc \in {"", "cached description"},
        d \in {NoImage, DataUri("image/png", "DS1")},
        u \in {<<"", "">>, <<"US1", "image/jpeg">>} }

Caches == {<<>>} \cup { <<r>> : r \in {x \in CachedRecords : HasVisual(x)} }

\* two of them: the empty cache, and a described record with a design and no photo
TypicalCaches ==
    {<<>>} \cup { <<r>> : r \in {x \in CachedRecords :
                                   x.description # "" /\ x.generatedDesignImage # NoImage
                                   /\ x.base64Image = ""} }

\* the page sizes of a story of at most `total` panels
RECURSIVE Shapes(_)
Shapes(total) ==
    {<<>>} \cup UNION { {<<k>> \o s : s \in Shapes(total - k)} : k \in 1..total }

RECURSIVE SumTo(_, _)
SumTo(shape, k) == IF k = 0 THEN 0 ELSE shape[k] + SumTo(shape, k - 1)

Everyone(chars) ==
    UNION { {chars[i].name, toLowerCase(chars[i].name)} : i \in 1..Len(chars) }

\* the structure the provider returns: panel n shows everyone, or under the "alternate"
\* plan every second panel shows the first character alone
StoryOf(shape, plan, chars) ==
    [title |-> "title",
     pages |-> [k \in 1..Len(shape) |->
        [pageNumber |-> k,
         panels |-> [j \in 1..shape[k] |->
            LET n == SumTo(shape, k - 1) + j IN
            [id |-> Tag("panel-", n),
             characters |-> IF plan = "alternate" /\ n % 2 = 0
                            THEN {chars[1].name} ELSE Everyone(chars),
             imageUrl |-> NoImage]]]]]

NoStructure == [title |-> "", pages |-> <<>>]

PipeIdle ==
    /\ pc = "idle"
    /\ argCharacters = <<>>
    /\ providerStory = NoStructure
    /\ ls = EmptyStorage
    /\ clock = 1
    /\ working = <<>>
    /\ storyData = NoStructure
    /\ designs = <<>>
    /\ art = <<>>
    /\ pageIdx = 0
    /\ panelIdx = 0
    /\ coverImage = NoImage
    /\ finalStory = NoStory
    /\ saved = <<>>
    /\ progress = <<>>
    /\ request = NoCall
    /\ failed = {}
    /\ calls = <<>>
    /\ outcome = NoOutcome

PipeStart(casts, caches, shapes, plans) ==
    /\ pc = "start"
    /\ argCharacters \in casts
    /\ \E shape \in shapes, plan \in plans :
         providerStory = StoryOf(shape, plan, argCharacters)
    /\ \E cache \in caches : ls = [EmptyStorage EXCEPT !.chars = cache]
    /\ clock = 1
    /\ working = <<>>
    /\ storyData = NoStructure
    /\ designs = <<>>
    /\ art = <<>>
    /\ pageIdx = 0
    /\ panelIdx = 0
    /\ coverImage = NoImage
    /\ finalStory = NoStory
    /\ saved = <<>>
    /\ progress = <<>>
    /\ request = NoCall
    /\ failed = {}
    /\ calls = <<>>
    /\ outcome = NoOutcome

NextPipe ==
    \/ PrepareCharacters
    \/ DescribeSettles
    \/ StructureSettles
    \/ PanelSettles
    \/ CoverSettles
    \/ VideoSettles

\* Spec: runs over stories of every shape, with typical characters
Init ==
    /\ PipeStart(CastsUpTo(MaxChars, [i \in 1..MaxChars |-> TypicalChoices(i)]),
                 TypicalCaches, Shapes(MaxPanels), {"alternate"})
    /\ ClientIdle
    /\ VideoIdle
    /\ LibIdle
    /\ envFallback = ""

Spec == Init /\ [][NextPipe]_vars

\* the run leaves the await it is suspended at: the awaited promise settles
Settles(await) ==
    /\ pc = await
    /\ pc' \in {"describe", "structure", "panel", "cover", "video", "returned", "raised"}

\* SpecLive: runs over stories of every shape from an empty cache, every awaited call
\* settling sooner or later
InitLive ==
    /\ PipeStart(CastsUpTo(MaxChars, [i \in 1..MaxChars |-> TypicalChoices(i)]),
                 {<<>>}, Shapes(MaxPanels), {"alternate"})
    /\ ClientIdle
    /\ VideoIdle
    /\ LibIdle
    /\ envFallback = ""

SpecLive ==
    /\ InitLive
    /\ [][NextPipe]_vars
    /\ \A await \in {"start", "describe", "structure", "panel", "cover", "video"} :
           WF_pc(Settles(await))

\* SpecCast: runs over every kind of character and cache record, with short stories
InitCast ==
    /\ PipeStart(CastsUpTo(MaxChars, [i \in 1..MaxChars |->
                                        IF i = 1 THEN CharacterChoices(i) ELSE TypicalChoices(i)]),
                 Caches, {<<2>>}, {"all", "alternate"})
    /\ ClientIdle
    /\ VideoIdle
    /\ LibIdle
    /\ envFallback = ""

SpecCast == InitCast /\ [][NextPipe]_vars

\* SpecClient: single calls of the two content clients
InitClient ==
    /\ ClientIdle
    /\ VideoIdle
    /\ LibIdle
    /\ PipeIdle
    /\ envFallback \in {"", "fallback-key"}

NextClient ==
    \/ ClientInvoke
    \/ ImageAttempt
    \/ PanelAttempt
    \/ PanelConservativeRetry
    \/ LegacyProviderCall
    \/ VideoInvoke
    \/ VideoProviderReturn

SpecClient == InitClient /\ [][NextClient]_vars

\* SpecDescribe: single calls of generateCharacterDescriptions, over the provider's answers
InitDescribe ==
    /\ ClientIdle
    /\ VideoIdle
    /\ PipeIdle
    /\ envFallback = ""
    /\ StoreIdle
    /\ PollIdle
    /\ UiIdle
    /\ dCharacters \in DescribeCasts
    /\ dResponse \in TextResponses
    /\ dResult = NoDescriptions

SpecDescribe == InitDescribe /\ [][DescribeCall]_vars

\* SpecStore: calls of the public methods of the two caches
InitStore ==
    /\ ClientIdle
    /\ VideoIdle
    /\ PipeIdle
    /\ envFallback = ""
    /\ DescIdle
    /\ PollIdle
    /\ UiIdle
    /\ sLs \in StorePresets
    /\ sNow = FirstCallTime
    /\ sCalls = 0
    /\ sCall = NoStoreCall
    /\ sReturn = NoReturn

SpecStore == InitStore /\ [][NextStore]_vars

\* SpecPoll: one status-poll loop; every fetch settles and every timer fires
InitPoll ==
    /\ ClientIdle
    /\ VideoIdle
    /\ PipeIdle
    /\ envFallback = ""
    /\ DescIdle
    /\ StoreIdle
    /\ PollIdle
    /\ UiIdle

SpecPoll == InitPoll /\ [][NextPoll]_vars /\ WF_pollVars(NextPoll)

\* SpecPrompt: single calls of createAnimationPrompt, over themes and styles
InitPrompt ==
    /\ ClientIdle
    /\ VideoIdle
    /\ PipeIdle
    /\ envFallback = ""
    /\ DescIdle
    /\ StoreIdle
    /\ PollIdle
    /\ aStory \in PromptStories
    /\ aPrompt = NoPrompt
    /\ PageIdle

SpecPrompt == InitPrompt /\ [][CreatePromptCall]_vars

\* SpecHook: calls of generateVideo and resetVideo in any order, with the fetches and
\* timers they leave pending
InitHook ==
    /\ ClientIdle
    /\ VideoIdle
    /\ PipeIdle
    /\ envFallback = ""
    /\ LibIdle

SpecHook == InitHook /\ [][NextHook]_vars

\* SpecDesign: the viewer once generateInitialDesigns has ended, each character with the
\* design it produced or, where it failed, with none
InitDesign ==
    /\ ClientIdle
    /\ VideoIdle
    /\ PipeIdle
    /\ envFallback = ""
    /\ DescIdle
    /\ StoreIdle
    /\ PollIdle
    /\ PromptIdle
    /\ HookIdle
    /\ designCharacters \in [1..MaxChars -> {Design("", FALSE), Design("design-a", FALSE)}]
    /\ currentCharacterIndex = 0
    /\ generatingCharacterId = 0
    /\ dFlights = <<>>
    /\ dLast = DesignEvent("", 0, <<>>)
    /\ HomeIdle

SpecDesign == InitDesign /\ [][NextDesign]_vars

\* SpecHome: the page after its mount, the history listing what the storage held
InitHome ==
    /\ ClientIdle
    /\ VideoIdle
    /\ PipeIdle
    /\ envFallback = ""
    /\ DescIdle
    /\ StoreIdle
    /\ PollIdle
    /\ PromptIdle
    /\ HookIdle
    /\ DesignIdle
    /\ step = "INPUT"
    /\ config = [prompt |-> "", characterCount |-> 2]
    /\ selectedCharacters = <<>>
    /\ generatedStory = ""
    /\ storedStories \in SUBSET HistoryIds
    /\ showHistory = FALSE

SpecHome == InitHome /\ [][NextHome]_vars

----------------------------------------------------------------------------
(* Properties *)

\* C1: in a run that has returned, the progress percentages passed to onProgress never
\* decrease and the last one is exactly 100.
C1_ProgressNonDecreasing ==
    pc = "returned" =>
        /\ \A i \in 1..(Len(progress) - 1) : FracLeq(progress[i], progress[i + 1])
        /\ progress[Len(progress)] = Pct(100)

\* C2: panel containment.  A failed panel illustration never aborts the run, and the
\* returned story has the pages and panels of the generated structure in the same order,
\* a panel carrying an image exactly when its illustration call succeeded.
C2_PanelContainment ==
    LET pages == storyData.pages IN
    /\ (\E k \in 1..Len(pages) : \E j \in 1..Len(pages[k].panels) :
            pages[k].panels[j].id \in failed) => pc # "raised"
    /\ pc = "returned" =>
         /\ Len(outcome.pages) = Len(pages)
         /\ \A k \in 1..Len(pages) :
              /\ outcome.pages[k].pageNumber = pages[k].pageNumber
              /\ Len(outcome.pages[k].panels) = Len(pages[k].panels)
              /\ \A j \in 1..Len(pages[k].panels) :
                   /\ outcome.pages[k].panels[j].id = pages[k].panels[j].id
                   /\ outcome.pages[k].panels[j].characters = pages[k].panels[j].characters
                   /\ (outcome.pages[k].panels[j].imageUrl # NoImage)
                          <=> (pages[k].panels[j].id \notin failed)

\* a returned story of three panels of which the second alone failed
C2_Witness ==
    /\ pc = "returned"
    /\ CountPanels(storyData.pages) = 3
    /\ failed \cap {"panel-1", "panel-2", "panel-3"} = {"panel-2"}
    /\ LET panels == Flatten(outcome.pages) IN
       /\ Len(panels) = 3
       /\ panels[1].imageUrl # NoImage
       /\ panels[2].imageUrl = NoImage
       /\ panels[3].imageUrl # NoImage

\* C3: once generateStory has succeeded the run never raises, and it ends by returning
\* the story it compiled, whatever fails afterwards.
C3_AlwaysReturnsStory ==
    /\ [](storyData # NoStructure => pc # "raised")
    /\ (storyData # NoStructure)
          ~> (pc = "returned" /\ outcome = finalStory /\ finalStory # NoStory)

\* a story returned after a panel, a save and the cover video have all failed
C3_Witness ==
    /\ pc = "returned"
    /\ storyData # NoStructure
    /\ outcome = finalStory
    /\ "video" \in failed
    /\ "panel-1" \in failed
    /\ \E i \in 1..Len(saved) : ~saved[i]

\* C4: a run raises to its caller only when the story-structure call has failed.
C4_RaisesOnStructureFailureOnly ==
    pc = "raised" => "structure" \in failed

\* C5: every panel or cover illustration request that references a character the caller
\* supplied with an approved design carries that design as a conditioning image, and
\* does not carry the character's photo.
C5_DesignIsConditioningImage ==
    request.op \in {"panel", "cover"} =>
        \A i \in 1..Len(argCharacters) : \A m \in 1..Len(request.characters) :
            ( /\ argCharacters[i].generatedDesignImage # NoImage
              /\ request.characters[m].id = argCharacters[i].id
              /\ request.op = "panel" => request.characters[m].name \in request.panelChars )
            => /\ \E k \in 1..Len(request.parts) :
                    request.parts[k].data = SplitComma1(argCharacters[i].generatedDesignImage)
               /\ \A k \in 1..Len(request.parts) :
                    request.parts[k].data # request.characters[m].base64Image

\* C6: design priority.  For a character with both an uploaded image and an approved
\* design, the conditioning images generatePanelIllustration and generateCoverImage build
\* hold the design's data and do not hold the uploaded image.
C6_DesignPriority ==
    cOp \in {"panel", "cover"} =>
        \A i \in 1..Len(cIn.chars) :
            ( /\ cIn.chars[i].generatedDesignImage # NoImage
              /\ cIn.chars[i].base64Image # ""
              /\ cOp = "panel" => cIn.chars[i].name \in cIn.panelChars )
            => /\ \E k \in 1..Len(cParts) :
                    cParts[k] = ImagePart(SplitComma1(cIn.chars[i].generatedDesignImage),
                                          MimeMatch(cIn.chars[i].generatedDesignImage))
               /\ \A k \in 1..Len(cParts) : cParts[k].data # cIn.chars[i].base64Image

\* a panel call for two characters, the first with a photo and a design
C6_Witness ==
    /\ cOp = "panel"
    /\ Len(cIn.chars) = 2
    /\ cIn.chars[1].generatedDesignImage # NoImage
    /\ cIn.chars[1].base64Image # ""
    /\ cIn.chars[1].mimeType # ""
    /\ cIn.chars[1].name \in cIn.panelChars
    /\ cParts # <<>>

\* C7: bounded retry.  An empty payload on the first attempt is followed by a second
\* attempt; a valid image on the second attempt is returned; an empty payload on both
\* attempts raises after exactly two provider attempts.
C7_BoundedRetry ==
    /\ Len(cLog) <= 2 * MaxAttempts
    /\ cAttempt <= MaxAttempts
    /\ (cPc = "done" /\ Len(cLog) >= 1 /\ EmptyPayload(cLog[1].resp)) => Len(cLog) >= 2
    /\ (Len(cLog) >= 2 /\ EmptyPayload(cLog[1].resp) /\ HasImage(cLog[2].resp))
          => /\ cPc = "done"
             /\ cResult = Returned(cLog[2].resp)
             /\ Len(cLog) = 2
    /\ (Len(cLog) >= 2 /\ EmptyPayload(cLog[1].resp) /\ EmptyPayload(cLog[2].resp))
          => /\ cPc = "done"
             /\ cResult.status = "raised"
             /\ cAttempt = 2
             /\ Len(cLog) = 2

\* a panel illustration returned by the second attempt after an empty first one
C7_Witness ==
    /\ cOp = "panel"
    /\ Len(cLog) = 2
    /\ EmptyPayload(cLog[1].resp)
    /\ HasImage(cLog[2].resp)
    /\ cResult.status = "ok"

\* C8: credential failover.  Every provider call goes to the primary credential first,
\* and a retryable error of the primary, with a fallback credential configured, is
\* followed by the same request under the fallback credential.
C8_CredentialFailover ==
    \A i \in 1..Len(cLog) :
        /\ (i = 1 \/ cLog[i - 1].cred = "fallback" \/ ~IsError(cLog[i - 1].resp)
              \/ ~Retryable(cLog[i - 1].resp.err) \/ envFallback = "")
              => cLog[i].cred = "primary"
        /\ (cLog[i].cred = "primary" /\ IsError(cLog[i].resp)
              /\ Retryable(cLog[i].resp.err) /\ envFallback # "")
              => /\ i < Len(cLog)
                 /\ cLog[i + 1].cred = "fallback"
                 /\ cLog[i + 1].req = cLog[i].req

\* C9: cover video precondition.  Either entry point, called on a story without a cover
\* image, raises the missing-cover-image error and makes no call to the video provider.
C9_CoverVideoPrecondition ==
    (vEntry # "none" /\ vStory.coverImage = NoImage)
        => /\ vPc = "done"
           /\ vResult.status = "raised"
           /\ vResult.msg # <<>>
           /\ vResult.msg[Len(vResult.msg)] = MissingCoverImage
           /\ vCalls = 0

\* the video client called with a provider key on a story without a cover image
C9_Witness ==
    /\ vEntry = "client"
    /\ vFalKey # ""
    /\ vStory.coverImage = NoImage
    /\ vResult.status = "raised"

\* C10: a character without a visual reference is passed to no illustration request, and
\* is still in the characters list of the returned story.
C10_UnillustratedCharactersRemain ==
    /\ request.op \in {"panel", "cover"} =>
           \A m \in 1..Len(request.characters) : HasVisual(request.characters[m])
    /\ pc = "returned" =>
           \A i \in 1..Len(working) :
               \E k \in 1..Len(outcome.characters) : outcome.characters[k].id = working[i].id

C12_RaisesOnMismatch ==
    (dResult # NoDescriptions /\ dResponse.err = "")
        => ((~dResponse.json \/ ~dResponse.array
                \/ Len(dResponse.entries) # Len(dCharacters))
              => dResult.status = "raised")

\* C13: after a saveStory that returned true, loadStory of the story's id returns the saved
\* story, createdAt being a date of the same millisecond value; for a first save and for a
\* save of a story that was stored before.
C13_RoundTrip ==
    (sCall.op = "saveStory" /\ sReturn.saved)
        => loadStory(Handler(sLs, Quiet), sCall.id) = sCall.story

\* the writes of `key` in a trace, refused or not
WritesOf(trace, key) == {i \in 1..Len(trace) : trace[i] \in {key \o ":ok", key \o ":quota"}}

\* C14: when a write of saveStory (the body, or the index) is refused with
\* QuotaExceededError, the eviction pass runs once, the refused write is made again exactly
\* once, and when that write is refused too saveStory returns false.
C14_EvictOnceRetryOnce ==
    LET trace == sReturn.trace
        first == FirstIndex({i \in 1..Len(trace) : trace[i] \in {"body:quota", "index:quota"}})
        key == IF trace[first] = "body:quota" THEN "body" ELSE "index"
        again == WritesOf(trace, key) \ {first}
    IN (sCall.op = "saveStory" /\ first > 0)
         => /\ Count(trace, "evict") = 1
            /\ "exhausted" \notin Events(trace)
            /\ Cardinality(again) = 1
            /\ \A i \in again : trace[i] = key \o ":quota" => ~sReturn.saved

AddedBy(stored, characters) ==
    {k \in 1..Len(characters) :
       /\ characters[k].generatedDesignImage # NoImage \/ characters[k].base64Image # ""
       /\ \A x \in 1..Len(stored) :
            /\ stored[x].id # characters[k].id
            /\ WellFormed(stored[x]) => ~SameName(stored[x].name, characters[k].name)}

\* C16: after every saveCharacters whose write succeeds the cache holds at most
\* MAX_CHARACTERS records in the order (usageCount descending, lastUsed descending); when
\* the stored records and the new characters together are more than MAX_CHARACTERS,
\* exactly MAX_CHARACTERS records are left.
C16_CapAndRanking ==
    (sCall.op = "saveCharacters" /\ sReturn.trace = <<"characters:ok">>)
        => LET distinct == Len(getStoredCharacters(Handler(sCall.before, Quiet)))
                             + Cardinality(AddedBy(getStoredCharacters(
                                                     Handler(sCall.before, Quiet)),
                                                   sCall.characters))
           IN /\ sLs.charsOk
              /\ Len(sLs.chars) <= MAX_CHARACTERS
              /\ \A i, j \in 1..Len(sLs.chars) :
                    i < j => ~RankedBefore(sLs.chars[j], sLs.chars[i])
              /\ Len(sLs.chars) = IF distinct > MAX_CHARACTERS THEN MAX_CHARACTERS
                                  ELSE distinct

\* three characters never cached were saved into a cache of MAX_CHARACTERS - 1 records
C16_Witness ==
    /\ sCall.op = "saveCharacters"
    /\ sReturn.trace = <<"characters:ok">>
    /\ Len(sCall.before.chars) = MAX_CHARACTERS - 1
    /\ Cardinality(AddedBy(sCall.before.chars, sCall.characters)) = 3
    /\ Len(sLs.chars) = MAX_CHARACTERS

\* C17: whichever write of saveCharacters is refused (the main write, the write of the
\* cleanup, or both), no exception leaves saveCharacters: with a cache whose records all
\* have a name it never raises, and an exception that leaves it was raised before any
\* write was tried.
C17_SaveCharactersBestEffort ==
    sCall.op = "saveCharacters"
        => /\ FirstMalformed(getStoredCharacters(Handler(sCall.before, Quiet))) = 0
                 => ~sReturn.raised
           /\ sReturn.raised => sReturn.trace = <<"throw">>

\* the main write and the write of the cleanup were both refused, the key was removed and
\* saveCharacters returned
C17_Witness ==
    /\ sCall.op = "saveCharacters"
    /\ sCall.before.chars # <<>>
    /\ sReturn.trace = <<"characters:quota", "characters:quota">>
    /\ ~sReturn.raised
    /\ sLs.chars = <<>>

\* C18: loadCharactersForStory returns one character per requested name, in the order of
\* the request: the stored character (with its design and photo) when a stored record has
\* the name in any case, otherwise a placeholder with a new id, the bare name and no
\* design; it never raises, a stored record that is corrupt counting as a miss.
C18_OnePerNameNeverFails ==
    sCall.op = "loadCharactersForStory"
        => LET stored == getStoredCharacters(Handler(sCall.before, Quiet))
               names == sCall.names
               loaded == sReturn.loaded
               Hits(k) == {x \in 1..Len(stored) :
                             WellFormed(stored[x]) /\ SameName(stored[x].name, names[k])}
           IN /\ ~sReturn.raised
              /\ Len(loaded) = Len(names)
              /\ \A k \in 1..Len(names) :
                    IF Hits(k) # {}
                    THEN loaded[k] = LoadedCharacter(stored[FirstIndex(Hits(k))])
                    ELSE /\ loaded[k].name = names[k]
                         /\ loaded[k].generatedDesignImage = NoImage
                         /\ loaded[k].base64Image = ""
                         /\ \A x \in 1..Len(stored) : stored[x].id # loaded[k].id

\* C19: after deleteStory(id) returns, loadStory(id) returns null and getAllStoredStories()
\* has no entry with that id.
C19_DeleteRemovesBodyAndEntry ==
    sCall.op = "deleteStory"
        => /\ loadStory(Handler(sLs, Quiet), sCall.id) = NoStory
           /\ \A i \in 1..Len(getAllStoredStories(Handler(sLs, Quiet))) :
                 getAllStoredStories(Handler(sLs, Quiet))[i].id # sCall.id

\* C20: a poll loop started by generateVideo makes at most maxAttempts = 120 status
\* queries and ends, with videoState.status "completed" or "error"; when the attempts run
\* out it ends with the error "Video generation timed out", which is not the error of a
\* FAILED status, "Video generation failed".
C20_PollBoundedAndEnds ==
    /\ [](pQueries <= maxAttempts)
    /\ (pPc # "idle") ~> (pPc = "ended")
    /\ [](pPc = "ended" => pVideoState.status \in {"completed", "error"})
    /\ [](pPc = "ended" /\ pAttempts >= maxAttempts
            => /\ pVideoState = PollError("Video generation timed out")
               /\ pVideoState # PollError(getStatusMessage("FAILED")))
    /\ [](pPc = "ended" /\ pVideoState = PollError(getStatusMessage("FAILED"))
            => pAttempts < maxAttempts)

\* the 120th status query found the job still running and the loop ended with the
\* timeout error
C20_Witness ==
    /\ pPc = "ended"
    /\ pQueries = maxAttempts
    /\ pAttempts = maxAttempts
    /\ pVideoState = PollError("Video generation timed out")

\* the calls of the run in the order they were made
StartsOf(log) == SelectSeq(log, LAMBDA e : e.ev = "start")

\* the place of the i-th call in the order of the stages; a story save made after the
\* cover video was requested is the second one
StageRank(starts, i) ==
    CASE starts[i].stage = "load" -> 1
      [] starts[i].stage = "describe" -> 2
      [] starts[i].stage = "structure" -> 3
      [] starts[i].stage = "panel" -> 4
      [] starts[i].stage = "cover" -> 5
      [] starts[i].stage = "saveCharacters" -> 6
      [] starts[i].stage = "saveStory" ->
             IF \E j \in 1..(i - 1) : starts[j].stage = "video" THEN 9 ELSE 7
      [] starts[i].stage = "video" -> 8

\* C21: within one run the calls are made one at a time and in the order of the stages:
\* the character-cache load, at most one description call, the structure call, one
\* illustration call per panel in page order then panel order, the cover-image call, the
\* story save, the cover-video call (only with a cover image) and, when it succeeded, a
\* second story save; a rejected panel, cover or video call and a failed save do not stop
\* the stages after them.
C21_StagesInOrderOneAtATime ==
    LET starts == StartsOf(calls)
        stages == {starts[i].stage : i \in 1..Len(starts)}
        panelsTo(i) == Cardinality({j \in 1..i : starts[j].stage = "panel"})
    IN /\ \A i \in 1..Len(calls) :
            IF i % 2 = 1 THEN calls[i].ev = "start"
            ELSE calls[i] = [calls[i - 1] EXCEPT !.ev = "end"]
       /\ (Len(calls) % 2 = 1)
             <=> pc \in {"describe", "structure", "panel", "cover", "video"}
       /\ Len(calls) % 2 = 1 => calls[Len(calls)].stage = pc
       /\ starts # <<>> => starts[1].stage = "load"
       /\ \A i, j \in 1..Len(starts) :
            i < j => \/ StageRank(starts, i) < StageRank(starts, j)
                     \/ starts[i].stage = "panel" /\ starts[j].stage = "panel"
       /\ \A i \in 1..Len(starts) :
            starts[i].stage = "panel"
               => PanelNumber(storyData.pages, starts[i].page, starts[i].panel) = panelsTo(i)
       /\ "video" \in stages => coverImage # NoImage
       /\ pc = "returned"
            => /\ {"load", "structure", "cover", "saveStory"} \subseteq stages
               /\ panelsTo(Len(starts)) = CountPanels(storyData.pages)
               /\ coverImage # NoImage => "video" \in stages
               /\ (outcome.coverVideo # "")
                     <=> Cardinality({i \in 1..Len(starts) : starts[i].stage = "saveStory"}) = 2

\* a run with a description call in which a panel's illustration was rejected and the first
\* save failed went on to the cover video and the second save
C21_Witness ==
    /\ pc = "returned"
    /\ failed \ {"describe", "structure", "cover", "video"} # {}
    /\ saved = <<FALSE, TRUE>>
    /\ CountPanels(storyData.pages) >= 2
    /\ \E i \in 1..Len(calls) : calls[i].stage = "describe"
    /\ calls[Len(calls)] = CallEvent("saveStory", 0, 0, "end")

\* the provider flagged the request of a round trip as prohibited content
Flagged(trip) ==
    /\ trip.req = "normal"
    /\ ~IsError(trip.resp)
    /\ trip.resp.cand
    /\ trip.resp.finish = "PROHIBITED_CONTENT"

\* C22: when the provider flags a panel illustration request as prohibited content,
\* generatePanelIllustration makes the conservative request, and it makes it once in the
\* whole call, on top of at most MaxAttempts normal requests; when the conservative request
\* yields no image the call gives up and raises.
C22_OneConservativeRetry ==
    cOp = "panel"
        => LET normal == {i \in 1..Len(cLog) : cLog[i].req = "normal"}
               conservative == {i \in 1..Len(cLog) : cLog[i].req = "conservative"}
           IN /\ Cardinality(normal) <= MaxAttempts
              /\ Cardinality(conservative) <= 1
              /\ \A i \in normal :
                   Flagged(cLog[i])
                      => IF i = Len(cLog) THEN cPc = "conservative"
                         ELSE cLog[i + 1].req = "conservative"
              /\ \A i \in conservative :
                   /\ Flagged(cLog[i - 1])
                   /\ ~HasImage(cLog[i].resp)
                        => /\ i = Len(cLog)
                           /\ cPc = "done"
                           /\ cResult.status = "raised"

\* C23: when a stored record has the name of a saved character (ignoring case),
\* saveCharacters updates that record and no other, even when another stored record has
\* the saved character's id: after the write the record of that name has one more use and
\* every other stored record is as it was.
C23_UpsertByNameFirst ==
    LET stored == getStoredCharacters(Handler(sCall.before, Quiet))
        named == {x \in 1..Len(stored) :
                    /\ WellFormed(stored[x])
                    /\ SameName(stored[x].name, sCall.characters[1].name)}
    IN (/\ sCall.op = "saveCharacters"
        /\ Len(sCall.characters) = 1
        /\ sReturn.trace = <<"characters:ok">>
        /\ HasVisual(sCall.characters[1])
        /\ named # {})
         => /\ \A x \in named :
                 \E y \in 1..Len(sLs.chars) :
                    /\ sLs.chars[y].name = sCall.characters[1].name
                    /\ sLs.chars[y].usageCount = stored[x].usageCount + 1
            /\ \A x \in (1..Len(stored)) \ named :
                 \E y \in 1..Len(sLs.chars) : sLs.chars[y] = stored[x]

\* C24: after the character preparation, a requested character whose name (in any case) a
\* cached record has carries the design and the photo of that record and the id the caller
\* supplied.
C24_HitKeepsCallerId ==
    pc \in {"describe", "structure", "panel", "cover"}
        => \A k \in 1..Len(argCharacters), x \in 1..Len(ls.chars) :
              SameName(ls.chars[x].name, argCharacters[k].name)
                 => /\ working[k].id = argCharacters[k].id
                    /\ working[k].generatedDesignImage = ls.chars[x].generatedDesignImage
                    /\ working[k].base64Image = ls.chars[x].base64Image

\* a character supplied with a design of its own was merged with a cached record that has
\* another id and another design
C24_Witness ==
    /\ pc = "structure"
    /\ \E k \in 1..Len(argCharacters), x \in 1..Len(ls.chars) :
         /\ SameName(ls.chars[x].name, argCharacters[k].name)
         /\ ls.chars[x].id # argCharacters[k].id
         /\ argCharacters[k].generatedDesignImage # NoImage
         /\ ls.chars[x].generatedDesignImage # argCharacters[k].generatedDesignImage
         /\ working[k].generatedDesignImage = ls.chars[x].generatedDesignImage

\* the ids of the bodies the index has no entry for
Orphans(store) ==
    {b.id : b \in {x \in store.bodies :
                     \A i \in 1..Len(store.meta) : store.meta[i].id # x.id}}

\* C25: a story body that is stored without an index entry is removed by the next
\* eviction pass: after a call that ran cleanupOldStories no body that had no index entry
\* before the call is left (the story the call itself saves aside).
C25_OrphanRemovedByEviction ==
    (/\ sCall.op \in {"saveStory", "deleteStory"}
     /\ sCall.before.metaOk
     /\ "evict" \in Events(sReturn.trace))
        => \A id \in Orphans(sCall.before) \ {sCall.id} : id \notin BodyIds(sLs)

\* C26: the action and ambiance guidance of the animation prompt follow the theme of the
\* story: adventurous gives heroic poses, particles and warm lighting; educational gives a
\* warm gentle sway and soft light; mystery gives fog and dramatic shadows; magical gives
\* glowing particles and mystical light; any other theme gives gentle natural motion.
C26_ThemeTable ==
    aPrompt # NoPrompt
        => LET guidance == <<aPrompt.action, aPrompt.ambiance>> IN
           CASE aStory.theme = "adventurous" ->
                    guidance = <<"subtle heroic poses, gentle wind, sparkles or magical particles",
                                 "epic and inspiring, warm golden lighting">>
             [] aStory.theme = "educational" ->
                    guidance = <<"warm expressions, gentle swaying, hearts or butterflies",
                                 "warm and cozy, soft pastel lighting">>
             [] aStory.theme \in {"mystery", "Mystery"} ->
                    guidance = <<"curious poses, shadows moving, fog or mist",
                                 "intriguing and mysterious, dramatic lighting and shadows">>
             [] aStory.theme = "magical" ->
                    guidance = <<"magical poses, glowing magical particles",
                                 "magical and enchanting, mystical colorful lighting">>
             [] aStory.theme = "funny" ->
                    guidance = <<"gentle natural movements, leaves or petals",
                                 "pleasant and engaging, natural warm lighting">>
             [] OTHER -> TRUE

\* C27: whenever saveStory(story) returns true the story can be reached afterwards:
\* getAllStoredStories() has an entry with its id and loadStory(story.id) returns it.
C27_SavedStoryReachable ==
    (sCall.op = "saveStory" /\ sReturn.saved)
        => /\ \E i \in 1..Len(getAllStoredStories(Handler(sLs, Quiet))) :
                 getAllStoredStories(Handler(sLs, Quiet))[i].id = sCall.id
           /\ loadStory(Handler(sLs, Quiet), sCall.id) = sCall.story

\* C28: after resetVideo the state stays idle with progress 0 until generateVideo is called
\* again, whatever callbacks of earlier poll loops run, and at most one poll loop is active
\* at any time.
C28_IdleAfterResetOneLoop ==
    /\ hReset => (hState.status = "idle" /\ hState.progress = 0)
    /\ Cardinality(ActiveLoops(hLoops)) <= 1

\* C29: the completion of regenerateCharacterDesign for one character changes only that
\* character's design image and approval flag: every other character, with an approval or
\* rejection made while the regeneration was in flight, is as it was before the completion.
C29_RegenerationKeepsOtherApprovals ==
    dLast.op = "regenerated"
        => \A j \in DOMAIN designCharacters :
              j # dLast.id => designCharacters[j] = dLast.before[j]

\* C30: whatever the user does on the home page, in the GENERATING step the story prompt and
\* the list of selected characters are non-empty, and in the COMPLETED step a generated
\* story is set.
C30_StepsHaveTheirData ==
    /\ step = "GENERATING" => (config.prompt # "" /\ selectedCharacters # <<>>)
    /\ step = "COMPLETED" => generatedStory # ""

====
